---- MODULE Spec2Model ----
(***************************************************************************)
(* A model of pytensor/tensor/conv/abstract_conv.py: the shape arithmetic  *)
(* of the abstract convolution operators, the operator family with its     *)
(* construction and grad methods, and the shapes and channel structure     *)
(* produced by the reference (perform) implementations.                    *)
(*                                                                         *)
(* Python values are modelled as tagged records, so that None, integers,   *)
(* floats, strings, tuples and raised exceptions stay distinguishable:     *)
(*   None, IntV(n), FloatV(num, den), StrV(s), TupleV(<<...>>), Raise(e).  *)
(* numpy shapes (always integers) are plain sequences of integers.         *)
(***************************************************************************)
EXTENDS Integers, Sequences, FiniteSets, TLC

VARIABLES call, op, origin, out

vars == <<call, op, origin, out>>

(***************************************************************************)
(* Bounds of the model.                                                    *)
(***************************************************************************)
MaxImage == 4
MaxKernel == 3
MaxPad == 2
MaxStride == 2
MaxDilation == 2
MaxChan == 3
MaxGroups == 2
MaxLength == 10

(***************************************************************************)
(* Python values.                                                          *)
(***************************************************************************)
None == [t |-> "none"]
IntV(n) == [t |-> "int", v |-> n]
\* the float num / den (Python 3 true division keeps the result a float
\* even when den divides num)
FloatV(num, den) == [t |-> "float", num |-> num, den |-> den]
StrV(s) == [t |-> "str", v |-> s]
TupleV(s) == [t |-> "tuple", v |-> s]
PairV(l, r) == TupleV(<<IntV(l), IntV(r)>>)
Raise(exc) == [t |-> "raise", exc |-> exc]

IsRaise(x) == x.t = "raise"
Ints(s) == [i \in DOMAIN s |-> IntV(s[i])]
Ones(n) == [i \in 1..n |-> 1]
\* s[lo..] of a sequence (1-based lo)
Tail_from(s, lo) == [i \in 1..(Len(s) - lo + 1) |-> s[lo + i - 1]]
\* s[-n:]
LastN(s, n) == Tail_from(s, Len(s) - n + 1)

(***************************************************************************)
(* get_conv_shape_1axis (abstract_conv.py 106-161)                         *)
(***************************************************************************)
\* lines 136-146: the padding on both sides of the axis
conv_shape_pad_wrong_full(border_mode, dil_kernel_shape) ==
  IF border_mode = StrV("half")
    THEN <<dil_kernel_shape \div 2, dil_kernel_shape \div 2>>
  ELSE IF border_mode = StrV("full")
    THEN <<dil_kernel_shape, dil_kernel_shape>>
  ELSE IF border_mode = StrV("valid")
    THEN <<0, 0>>
  ELSE IF border_mode.t = "tuple"
    THEN <<border_mode.v[1].v, border_mode.v[2].v>>
  ELSE <<border_mode.v, border_mode.v>>

conv_shape_pad(border_mode, dil_kernel_shape) ==
  IF border_mode = StrV("half")
    THEN <<dil_kernel_shape \div 2, dil_kernel_shape \div 2>>
  ELSE IF border_mode = StrV("full")
    THEN <<dil_kernel_shape - 1, dil_kernel_shape - 1>>
  ELSE IF border_mode = StrV("valid")
    THEN <<0, 0>>
  ELSE IF border_mode.t = "tuple"
    THEN <<border_mode.v[1].v, border_mode.v[2].v>>
  ELSE <<border_mode.v, border_mode.v>>

\* the same with the sign check of line 147 on the left padding only
conv_shape_1axis_known_left_check_only(image_shape, kernel_shape, border_mode, subsample, dilation) ==
  LET dil_kernel_shape == (kernel_shape.v - 1) * dilation.v + 1
      pad == conv_shape_pad(border_mode, dil_kernel_shape)
      pad_l == pad[1]
      pad_r == pad[2]
  IN IF border_mode.t # "str" /\ pad_l < 0
     THEN Raise("ValueError")
     ELSE
       LET s0 == image_shape.v - dil_kernel_shape
           s1 == IF pad_l # 0 THEN s0 + pad_l ELSE s0
           s2 == IF pad_r # 0 THEN s1 + pad_r ELSE s1
           s3 == IF subsample.v # 1 THEN s2 \div subsample.v ELSE s2
       IN IntV(s3 + 1)

\* lines 134-161: the computation once no argument is None
conv_shape_1axis_known(image_shape, kernel_shape, border_mode, subsample, dilation) ==
  LET dil_kernel_shape == (kernel_shape.v - 1) * dilation.v + 1
      pad == conv_shape_pad(border_mode, dil_kernel_shape)
      pad_l == pad[1]
      pad_r == pad[2]
  IN IF border_mode.t # "str" /\ (pad_l < 0 \/ pad_r < 0)
     THEN Raise("ValueError")
     ELSE
       LET s0 == image_shape.v - dil_kernel_shape
           s1 == IF pad_l # 0 THEN s0 + pad_l ELSE s0
           s2 == IF pad_r # 0 THEN s1 + pad_r ELSE s1
           s3 == IF subsample.v # 1 THEN s2 \div subsample.v ELSE s2
       IN IntV(s3 + 1)

\* a None check that forgets the dilation and takes an unknown dilation as 1
get_conv_shape_1axis_guess_dilation(image_shape, kernel_shape, border_mode, subsample, dilation) ==
  IF None \in {image_shape, kernel_shape, border_mode, subsample}
  THEN None
  ELSE conv_shape_1axis_known(image_shape, kernel_shape, border_mode, subsample,
                              IF dilation = None THEN IntV(1) ELSE dilation)

get_conv_shape_1axis(image_shape, kernel_shape, border_mode, subsample, dilation) ==
  IF None \in {image_shape, kernel_shape, border_mode, subsample, dilation}
  THEN None
  ELSE conv_shape_1axis_known(image_shape, kernel_shape, border_mode, subsample, dilation)

(***************************************************************************)
(* get_conv_gradweights_shape_1axis (abstract_conv.py 242-296)             *)
(* `kernel_shape / dilation` is Python 3 true division: a float.           *)
(***************************************************************************)
get_conv_gradweights_shape_1axis(image_shape, top_shape, border_mode, subsample, dilation) ==
  IF None \in {image_shape, top_shape, border_mode, subsample, dilation}
  THEN None
  ELSE IF subsample.v # 1 \/ border_mode = StrV("half")
  THEN None
  ELSE
    LET explicit == border_mode # StrV("full") /\ border_mode # StrV("valid")
        pad_l == IF border_mode.t = "tuple" THEN border_mode.v[1].v ELSE border_mode.v
        pad_r == IF border_mode.t = "tuple" THEN border_mode.v[2].v ELSE border_mode.v
        kernel_shape ==
          IF border_mode = StrV("full") THEN top_shape.v - image_shape.v
          ELSE IF border_mode = StrV("valid") THEN image_shape.v - top_shape.v
          ELSE image_shape.v + pad_l + pad_r - top_shape.v
    IN IF explicit /\ (pad_l < 0 \/ pad_r < 0)
       THEN Raise("ValueError")
       ELSE IF dilation.v > 1
       THEN FloatV(kernel_shape + dilation.v, dilation.v)
       ELSE IntV(kernel_shape + 1)

(***************************************************************************)
(* get_conv_gradinputs_shape_1axis (abstract_conv.py 369-430)              *)
(***************************************************************************)
\* lines 407-417: the padding on both sides of the axis
gradinputs_shape_pad(border_mode, dil_kernel_shape) ==
  IF border_mode = StrV("half")
    THEN <<dil_kernel_shape \div 2, dil_kernel_shape \div 2>>
  ELSE IF border_mode = StrV("full")
    THEN <<dil_kernel_shape - 1, dil_kernel_shape - 1>>
  ELSE IF border_mode = StrV("valid")
    THEN <<0, 0>>
  ELSE IF border_mode.t = "tuple"
    THEN <<border_mode.v[1].v, border_mode.v[2].v>>
  ELSE <<border_mode.v, border_mode.v>>

get_conv_gradinputs_shape_1axis(kernel_shape, top_shape, border_mode, subsample, dilation) ==
  IF None \in {kernel_shape, top_shape, border_mode, subsample, dilation}
  THEN None
  ELSE IF subsample.v # 1
  THEN None
  ELSE
    LET dil_kernel_shape == (kernel_shape.v - 1) * dilation.v + 1
        pad == gradinputs_shape_pad(border_mode, dil_kernel_shape)
        pad_l == pad[1]
        pad_r == pad[2]
    IN IF border_mode.t # "str" /\ (pad_l < 0 \/ pad_r < 0)
       THEN Raise("ValueError")
       ELSE
         LET s0 == top_shape.v + dil_kernel_shape - 1
             s1 == IF pad_l > 0 THEN s0 - pad_l ELSE s0
             s2 == IF pad_r > 0 THEN s1 - pad_r ELSE s1
         IN IntV(s2)

\* the per-axis loop shared by the full-tensor shape functions: the tuple of
\* per-axis results, or the exception the first failing axis raises
AxisResults(r) ==
  IF \E i \in DOMAIN r : IsRaise(r[i])
  THEN r[CHOOSE i \in DOMAIN r : IsRaise(r[i]) /\ \A j \in DOMAIN r : IsRaise(r[j]) => i <= j]
  ELSE TupleV(r)

\* border_mode[i] if border_mode is a tuple, else border_mode
AxisMode(border_mode, i) ==
  IF border_mode.t = "tuple" THEN border_mode.v[i] ELSE border_mode

(***************************************************************************)
(* get_conv_output_shape (abstract_conv.py 38-101)                         *)
(* image_shape, kernel_shape: sequences of IntV / None;                    *)
(* subsample, filter_dilation: sequences of IntV (filter_dilation may be   *)
(* None: all ones).                                                        *)
(***************************************************************************)
get_conv_output_shape(image_shape, kernel_shape, border_mode, subsample, filter_dilation) ==
  LET bsize == image_shape[1]
      imshp == Tail_from(image_shape, 3)
      convdim == Len(image_shape) - 2
      nkern == kernel_shape[1]
      kshp == LastN(kernel_shape, convdim)
      fd == IF filter_dilation = None THEN Ints(Ones(Len(subsample))) ELSE filter_dilation
      out_shp == [i \in 1..Len(subsample) |->
                    get_conv_shape_1axis(imshp[i], kshp[i], AxisMode(border_mode, i),
                                         subsample[i], fd[i])]
      r == AxisResults(out_shp)
  IN IF IsRaise(r) THEN r ELSE TupleV(<<bsize, nkern>> \o r.v)

(***************************************************************************)
(* get_conv_gradweights_shape (abstract_conv.py 164-239)                   *)
(***************************************************************************)
get_conv_gradweights_shape(image_shape, top_shape, border_mode, subsample, filter_dilation, num_groups, unshared) ==
  LET nkern == image_shape[2]
      imshp == Tail_from(image_shape, 3)
      nchan0 == top_shape[2]
      topshp == Tail_from(top_shape, 3)
      fd == IF filter_dilation = None THEN Ints(Ones(Len(subsample))) ELSE filter_dilation
      nchan == IF num_groups > 1 THEN IntV(nchan0.v \div num_groups) ELSE nchan0
      out_shp == [i \in 1..Len(subsample) |->
                    get_conv_gradweights_shape_1axis(imshp[i], topshp[i],
                        AxisMode(border_mode, i), subsample[i], fd[i])]
      r == AxisResults(out_shp)
  IN IF IsRaise(r) THEN r
     ELSE IF unshared THEN TupleV(<<nchan>> \o topshp \o <<nkern>> \o r.v)
     ELSE TupleV(<<nchan, nkern>> \o r.v)

(***************************************************************************)
(* get_conv_gradinputs_shape (abstract_conv.py 299-366)                    *)
(***************************************************************************)
\* the same without the multiplication of the channel count by num_groups
get_conv_gradinputs_shape_no_groups(kernel_shape, top_shape, border_mode, subsample, filter_dilation, num_groups) ==
  LET bsize == top_shape[1]
      topshp == Tail_from(top_shape, 3)
      convdim == Len(top_shape) - 2
      nkern == kernel_shape[2]
      kshp == LastN(kernel_shape, convdim)
      fd == IF filter_dilation = None THEN Ints(Ones(Len(subsample))) ELSE filter_dilation
      out_shp == [i \in 1..Len(subsample) |->
                    get_conv_gradinputs_shape_1axis(kshp[i], topshp[i],
                        AxisMode(border_mode, i), subsample[i], fd[i])]
      r == AxisResults(out_shp)
  IN IF IsRaise(r) THEN r ELSE TupleV(<<bsize, nkern>> \o r.v)

get_conv_gradinputs_shape(kernel_shape, top_shape, border_mode, subsample, filter_dilation, num_groups) ==
  LET bsize == top_shape[1]
      topshp == Tail_from(top_shape, 3)
      convdim == Len(top_shape) - 2
      nkern0 == kernel_shape[2]
      kshp == LastN(kernel_shape, convdim)
      fd == IF filter_dilation = None THEN Ints(Ones(Len(subsample))) ELSE filter_dilation
      nkern == IF num_groups > 1 THEN IntV(nkern0.v * num_groups) ELSE nkern0
      out_shp == [i \in 1..Len(subsample) |->
                    get_conv_gradinputs_shape_1axis(kshp[i], topshp[i],
                        AxisMode(border_mode, i), subsample[i], fd[i])]
      r == AxisResults(out_shp)
  IN IF IsRaise(r) THEN r ELSE TupleV(<<bsize, nkern>> \o r.v)

(***************************************************************************)
(* BaseAbstractConv.__init__ (abstract_conv.py 2133-2241), as called by    *)
(* the __init__ of AbstractConv, AbstractConv_gradWeights and              *)
(* AbstractConv_gradInputs (which only pass their arguments on).           *)
(*   imshp, kshp         : None or TupleV of a sequence of IntV / None     *)
(*   border_mode         : StrV, IntV or TupleV of IntV / pairs            *)
(*   subsample, dilation : None or TupleV of a sequence of integers        *)
(* The operator keeps its shapes, subsample and filter_dilation as plain   *)
(* sequences.                                                              *)
(* The result is the operator (a record of its __props__ and its kind) or  *)
(* the exception raised.                                                   *)
(***************************************************************************)
\* an entry check that takes any integer, negative ones included
valid_mode_entry_any_int(mode) ==
  \/ mode.t = "int"
  \/ /\ mode.t = "tuple"
     /\ Len(mode.v) = 2
     /\ \A j \in 1..2 : mode.v[j].t = "int" /\ mode.v[j].v >= 0

\* lines 2169-2177: an entry of a border_mode tuple is acceptable
valid_mode_entry(mode) ==
  \/ mode.t = "int" /\ mode.v >= 0
  \/ /\ mode.t = "tuple"
     /\ Len(mode.v) = 2
     /\ \A j \in 1..2 : mode.v[j].t = "int" /\ mode.v[j].v >= 0

\* a loop that keeps a symmetric pair as a pair
collapse_entry_keep_pair(mode) == mode

\* lines 2182-2189: a symmetric pair collapses to its value
collapse_entry(mode) ==
  IF mode.t = "tuple" /\ mode.v[1] = mode.v[2] THEN mode.v[1] ELSE mode

\* a constructor that stores the border_mode as it was given
normalize_border_mode_as_given(border_mode, convdim) == border_mode

\* lines 2154-2200: the canonical border_mode, or the exception raised
normalize_border_mode(border_mode, convdim) ==
  LET v == border_mode.v
      \* the loop stops at the first entry that is unacceptable, or a pair
      \* when convdim is not 2
      bad(i) == ~valid_mode_entry(v[i]) \/ (v[i].t = "tuple" /\ convdim # 2)
      first == CHOOSE i \in 1..convdim : bad(i) /\ \A j \in 1..(i - 1) : ~bad(j)
      as_tuple ==
        IF border_mode.t = "int"
        THEN IF border_mode.v < 0 THEN Raise("ValueError")
             ELSE TupleV([i \in 1..convdim |-> border_mode])
        ELSE IF border_mode.t = "tuple"
        THEN IF Len(v) # convdim THEN Raise("ValueError")
             ELSE IF \E i \in 1..convdim : bad(i)
               THEN IF ~valid_mode_entry(v[first]) THEN Raise("ValueError")
                    ELSE Raise("NotImplementedError")
             ELSE TupleV([i \in 1..convdim |-> collapse_entry(v[i])])
        ELSE IF border_mode \notin {StrV("valid"), StrV("full"), StrV("half")}
        THEN Raise("ValueError")
        ELSE border_mode
  IN IF as_tuple.t = "tuple"
        /\ \A i \in 1..Len(as_tuple.v) : as_tuple.v[i] \in {PairV(0, 0), IntV(0)}
     THEN StrV("valid")
     ELSE as_tuple

\* a constructor without the num_groups check of lines 2234-2235
BaseAbstractConv_init_any_num_groups(kind, convdim, imshp, kshp, border_mode, subsample, filter_flip, filter_dilation, num_groups, unshared) ==
  IF convdim \notin {2, 3} THEN Raise("ValueError")
  ELSE
    LET subsample1 == IF subsample.t = "none" THEN Ones(convdim) ELSE subsample.v
        filter_dilation1 == IF filter_dilation.t = "none" THEN Ones(convdim)
                            ELSE filter_dilation.v
        border_mode1 == normalize_border_mode(border_mode, convdim)
        self_imshp == IF imshp.t # "none" THEN imshp.v ELSE [i \in 1..(2 + convdim) |-> None]
        self_kshp == IF kshp.t # "none" THEN kshp.v
                     ELSE [i \in 1..(IF unshared THEN 2 + 2 * convdim ELSE 2 + convdim) |-> None]
    IN IF IsRaise(border_mode1) THEN border_mode1
       ELSE IF \E i \in DOMAIN self_imshp : self_imshp[i].t \notin {"none", "int"}
         THEN Raise("ValueError")
       ELSE IF \E i \in DOMAIN self_kshp : self_kshp[i].t \notin {"none", "int"}
         THEN Raise("ValueError")
       ELSE IF Len(subsample1) # convdim THEN Raise("ValueError")
       ELSE IF Len(filter_dilation1) # convdim THEN Raise("ValueError")
       ELSE IF unshared /\ convdim # 2 THEN Raise("NotImplementedError")
       ELSE [t |-> "op", kind |-> kind, convdim |-> convdim, imshp |-> self_imshp, kshp |-> self_kshp,
             border_mode |-> border_mode1, subsample |-> subsample1,
             filter_flip |-> filter_flip, filter_dilation |-> filter_dilation1,
             num_groups |-> num_groups, unshared |-> unshared]

BaseAbstractConv_init(kind, convdim, imshp, kshp, border_mode, subsample, filter_flip, filter_dilation, num_groups, unshared) ==
  IF convdim \notin {2, 3} THEN Raise("ValueError")
  ELSE
    LET subsample1 == IF subsample.t = "none" THEN Ones(convdim) ELSE subsample.v
        filter_dilation1 == IF filter_dilation.t = "none" THEN Ones(convdim)
                            ELSE filter_dilation.v
        border_mode1 == normalize_border_mode(border_mode, convdim)
        self_imshp == IF imshp.t # "none" THEN imshp.v ELSE [i \in 1..(2 + convdim) |-> None]
        self_kshp == IF kshp.t # "none" THEN kshp.v
                     ELSE [i \in 1..(IF unshared THEN 2 + 2 * convdim ELSE 2 + convdim) |-> None]
    IN IF IsRaise(border_mode1) THEN border_mode1
       ELSE IF \E i \in DOMAIN self_imshp : self_imshp[i].t \notin {"none", "int"}
         THEN Raise("ValueError")
       ELSE IF \E i \in DOMAIN self_kshp : self_kshp[i].t \notin {"none", "int"}
         THEN Raise("ValueError")
       ELSE IF Len(subsample1) # convdim THEN Raise("ValueError")
       ELSE IF Len(filter_dilation1) # convdim THEN Raise("ValueError")
       ELSE IF num_groups < 1 THEN Raise("ValueError")
       ELSE IF unshared /\ convdim # 2 THEN Raise("NotImplementedError")
       ELSE [t |-> "op", kind |-> kind, convdim |-> convdim, imshp |-> self_imshp, kshp |-> self_kshp,
             border_mode |-> border_mode1, subsample |-> subsample1,
             filter_flip |-> filter_flip, filter_dilation |-> filter_dilation1,
             num_groups |-> num_groups, unshared |-> unshared]

\* the __props__ of an operator (lines 2121-2131)
Props(o) == [f \in {"convdim", "border_mode", "subsample", "filter_flip", "imshp", "kshp",
                    "filter_dilation", "num_groups", "unshared"} |-> o[f]]

(***************************************************************************)
(* The grad methods.  Each returns the two operators it constructs with    *)
(* the inputs they are applied to, named after the method's own variables. *)
(***************************************************************************)
\* AbstractConv2d.__init__, AbstractConv2d_gradWeights.__init__,
\* AbstractConv2d_gradInputs.__init__ (2652-2673, 3009-3030, 3389-3410)
Conv2d_init(kind, imshp, kshp, border_mode, subsample, filter_flip, filter_dilation, num_groups, unshared) ==
  BaseAbstractConv_init(kind, 2, imshp, kshp, border_mode, subsample, filter_flip,
                        filter_dilation, num_groups, unshared)

\* AbstractConv3d.__init__ and its two gradient classes (2714-2733,
\* 3072-3091, 3452-3471): no unshared argument
Conv3d_init(kind, imshp, kshp, border_mode, subsample, filter_flip, filter_dilation, num_groups) ==
  BaseAbstractConv_init(kind, 3, imshp, kshp, border_mode, subsample, filter_flip,
                        filter_dilation, num_groups, FALSE)

Applied(o, inputs) == [op |-> o, inputs |-> inputs]
Grads(a, b) == [t |-> "grads", v |-> <<a, b>>]

\* a grad that passes filter_dilation where subsample belongs and vice versa
AbstractConv2d_grad_swapped(self) ==
  Grads(Applied(Conv2d_init("GradInputs", TupleV(self.imshp), TupleV(self.kshp), self.border_mode,
                        TupleV(self.filter_dilation), self.filter_flip, TupleV(self.subsample),
                        self.num_groups, self.unshared),
            <<"weights", "top", "bottom.shape[-2:]">>),
    Applied(Conv2d_init("GradWeights", TupleV(self.imshp), TupleV(self.kshp), self.border_mode,
                        TupleV(self.filter_dilation), self.filter_flip, TupleV(self.subsample),
                        self.num_groups, self.unshared),
            <<"bottom", "top", "weights.shape[-2:]">>))

\* AbstractConv2d.grad (2675-2705): bottom, weights = inp; top = grads
AbstractConv2d_grad(self) ==
  Grads(Applied(Conv2d_init("GradInputs", TupleV(self.imshp), TupleV(self.kshp), self.border_mode,
                        TupleV(self.subsample), self.filter_flip, TupleV(self.filter_dilation),
                        self.num_groups, self.unshared),
            <<"weights", "top", "bottom.shape[-2:]">>),
    Applied(Conv2d_init("GradWeights", TupleV(self.imshp), TupleV(self.kshp), self.border_mode,
                        TupleV(self.subsample), self.filter_flip, TupleV(self.filter_dilation),
                        self.num_groups, self.unshared),
            <<"bottom", "top", "weights.shape[-2:]">>))

\* AbstractConv3d.grad (2735-2762)
AbstractConv3d_grad(self) ==
  Grads(Applied(Conv3d_init("GradInputs", TupleV(self.imshp), TupleV(self.kshp), self.border_mode,
                        TupleV(self.subsample), self.filter_flip, TupleV(self.filter_dilation),
                        self.num_groups),
            <<"weights", "top", "bottom.shape[-3:]">>),
    Applied(Conv3d_init("GradWeights", TupleV(self.imshp), TupleV(self.kshp), self.border_mode,
                        TupleV(self.subsample), self.filter_flip, TupleV(self.filter_dilation),
                        self.num_groups),
            <<"bottom", "top", "weights.shape[-3:]">>))

\* AbstractConv2d_gradWeights.grad (3032-3062): bottom, top = inp[:2]; weights = grads
AbstractConv2d_gradWeights_grad(self) ==
  Grads(Applied(Conv2d_init("GradInputs", TupleV(self.imshp), TupleV(self.kshp), self.border_mode,
                        TupleV(self.subsample), self.filter_flip, TupleV(self.filter_dilation),
                        self.num_groups, self.unshared),
            <<"weights", "top", "bottom.shape[-2:]">>),
    Applied(Conv2d_init("Forward", TupleV(self.imshp), TupleV(self.kshp), self.border_mode,
                        TupleV(self.subsample), self.filter_flip, TupleV(self.filter_dilation),
                        self.num_groups, self.unshared),
            <<"bottom", "weights">>))

\* AbstractConv3d_gradWeights.grad (3093-3121)
AbstractConv3d_gradWeights_grad(self) ==
  Grads(Applied(Conv3d_init("GradInputs", TupleV(self.imshp), TupleV(self.kshp), self.border_mode,
                        TupleV(self.subsample), self.filter_flip, TupleV(self.filter_dilation),
                        self.num_groups),
            <<"weights", "top", "bottom.shape[-3:]">>),
    Applied(Conv3d_init("Forward", TupleV(self.imshp), TupleV(self.kshp), self.border_mode,
                        TupleV(self.subsample), self.filter_flip, TupleV(self.filter_dilation),
                        self.num_groups),
            <<"bottom", "weights">>))

\* AbstractConv2d_gradInputs.grad (3412-3442): weights, top = inp[:2]; bottom = grads
AbstractConv2d_gradInputs_grad(self) ==
  Grads(Applied(Conv2d_init("GradWeights", TupleV(self.imshp), TupleV(self.kshp), self.border_mode,
                        TupleV(self.subsample), self.filter_flip, TupleV(self.filter_dilation),
                        self.num_groups, self.unshared),
            <<"bottom", "top", "weights.shape[-2:]">>),
    Applied(Conv2d_init("Forward", TupleV(self.imshp), TupleV(self.kshp), self.border_mode,
                        TupleV(self.subsample), self.filter_flip, TupleV(self.filter_dilation),
                        self.num_groups, self.unshared),
            <<"bottom", "weights">>))

\* AbstractConv3d_gradInputs.grad (3473-3500)
AbstractConv3d_gradInputs_grad(self) ==
  Grads(Applied(Conv3d_init("GradWeights", TupleV(self.imshp), TupleV(self.kshp), self.border_mode,
                        TupleV(self.subsample), self.filter_flip, TupleV(self.filter_dilation),
                        self.num_groups),
            <<"bottom", "top", "weights.shape[-3:]">>),
    Applied(Conv3d_init("Forward", TupleV(self.imshp), TupleV(self.kshp), self.border_mode,
                        TupleV(self.subsample), self.filter_flip, TupleV(self.filter_dilation),
                        self.num_groups),
            <<"bottom", "weights">>))

\* method dispatch on the operator's class
grad(self) ==
  IF self.kind = "Forward"
  THEN IF self.convdim = 2 THEN AbstractConv2d_grad(self) ELSE AbstractConv3d_grad(self)
  ELSE IF self.kind = "GradWeights"
  THEN IF self.convdim = 2 THEN AbstractConv2d_gradWeights_grad(self)
       ELSE AbstractConv3d_gradWeights_grad(self)
  ELSE IF self.convdim = 2 THEN AbstractConv2d_gradInputs_grad(self)
       ELSE AbstractConv3d_gradInputs_grad(self)

(***************************************************************************)
(* State.                                                                  *)
(*   call   : the last function or method call, its arguments and result   *)
(*   op     : the operator instance at hand (NoOp before construction)     *)
(*   origin : the operator the current chain of grad steps started from    *)
(*   out    : the output storage cell o[0] of perform (None: never written)*)
(***************************************************************************)
NoCall == [fn |-> "none"]
NoOp == [t |-> "noop", kind |-> "none"]

Init ==
  /\ call = NoCall
  /\ op = NoOp
  /\ origin = NoOp
  /\ out = None

(***************************************************************************)
(* Inputs of the single-axis shape functions.                              *)
(***************************************************************************)
Opt(S) == {None} \cup {IntV(x) : x \in S}
NamedModes == {StrV("valid"), StrV("full"), StrV("half")}
BorderModes1 ==
  {None} \cup NamedModes \cup {IntV(p) : p \in -1..MaxPad}
         \cup {PairV(l, r) : l, r \in -1..MaxPad}

Call_get_conv_shape_1axis ==
  /\ call = NoCall
  /\ \E image \in Opt(0..MaxImage), kernel \in Opt(1..MaxKernel), bm \in BorderModes1,
        s \in Opt(1..MaxStride), d \in Opt(1..MaxDilation) :
       call' = [fn |-> "get_conv_shape_1axis",
                args |-> [image_shape |-> image, kernel_shape |-> kernel,
                          border_mode |-> bm, subsample |-> s, dilation |-> d],
                result |-> get_conv_shape_1axis(image, kernel, bm, s, d)]
  /\ UNCHANGED <<op, origin, out>>

Call_get_conv_gradweights_shape_1axis ==
  /\ call = NoCall
  /\ \E image \in Opt(0..MaxImage), top \in Opt(0..MaxImage), bm \in BorderModes1,
        s \in Opt(1..MaxStride), d \in Opt(1..MaxDilation) :
       call' = [fn |-> "get_conv_gradweights_shape_1axis",
                args |-> [image_shape |-> image, top_shape |-> top,
                          border_mode |-> bm, subsample |-> s, dilation |-> d],
                result |-> get_conv_gradweights_shape_1axis(image, top, bm, s, d)]
  /\ UNCHANGED <<op, origin, out>>

Call_get_conv_gradinputs_shape_1axis ==
  /\ call = NoCall
  /\ \E kernel \in Opt(1..MaxKernel), top \in Opt(0..MaxImage), bm \in BorderModes1,
        s \in Opt(1..MaxStride), d \in Opt(1..MaxDilation) :
       call' = [fn |-> "get_conv_gradinputs_shape_1axis",
                args |-> [kernel_shape |-> kernel, top_shape |-> top,
                          border_mode |-> bm, subsample |-> s, dilation |-> d],
                result |-> get_conv_gradinputs_shape_1axis(kernel, top, bm, s, d)]
  /\ UNCHANGED <<op, origin, out>>

\* the caller takes the result; the next call starts afresh
Return ==
  /\ call # NoCall
  /\ call' = NoCall
  /\ UNCHANGED <<op, origin, out>>

NextShape1 ==
  \/ Call_get_conv_shape_1axis
  \/ Call_get_conv_gradweights_shape_1axis
  \/ Call_get_conv_gradinputs_shape_1axis
  \/ Return

\* the single-axis shape functions applied to every input of the bounded sets
SpecShape1 == Init /\ [][NextShape1]_vars

(***************************************************************************)
(* Properties of the single-axis shape functions (under SpecShape1).       *)
(***************************************************************************)
Known(args) == \A f \in DOMAIN args : args[f] # None
NonNegativeMode(bm) ==
  \/ bm \in NamedModes
  \/ bm.t = "int" /\ bm.v >= 0
  \/ bm.t = "tuple" /\ bm.v[1].v >= 0 /\ bm.v[2].v >= 0

\* the padding the specification gives for a border mode
SpecPadL(bm, dil_kernel) ==
  IF bm = StrV("valid") THEN 0
  ELSE IF bm = StrV("full") THEN dil_kernel - 1
  ELSE IF bm = StrV("half") THEN dil_kernel \div 2
  ELSE IF bm.t = "int" THEN bm.v
  ELSE bm.v[1].v
SpecPadR(bm, dil_kernel) ==
  IF bm = StrV("valid") THEN 0
  ELSE IF bm = StrV("full") THEN dil_kernel - 1
  ELSE IF bm = StrV("half") THEN dil_kernel \div 2
  ELSE IF bm.t = "int" THEN bm.v
  ELSE bm.v[2].v

\* C1: for known image, kernel, subsample >= 1, dilation >= 1 and a named or
\* non-negative explicit border mode, get_conv_shape_1axis returns
\* (image + pad_l + pad_r - dil_kernel) // subsample + 1 with
\* dil_kernel = (kernel - 1) * dilation + 1.
C1_OutputSizeFormula ==
  (/\ call.fn = "get_conv_shape_1axis"
   /\ Known(call.args)
   /\ NonNegativeMode(call.args.border_mode))
  => LET a == call.args
         dil_kernel == (a.kernel_shape.v - 1) * a.dilation.v + 1
         pad_l == SpecPadL(a.border_mode, dil_kernel)
         pad_r == SpecPadR(a.border_mode, dil_kernel)
     IN call.result =
          IntV((a.image_shape.v + pad_l + pad_r - dil_kernel) \div a.subsample.v + 1)

\* a strided, dilated, asymmetrically padded call and a "full" call have returned
C1_Witness ==
  \/ /\ call.fn = "get_conv_shape_1axis"
     /\ call.args = [image_shape |-> IntV(4), kernel_shape |-> IntV(2),
                     border_mode |-> PairV(0, 1), subsample |-> IntV(2),
                     dilation |-> IntV(2)]
     /\ call.result = IntV(2)
  \/ /\ call.fn = "get_conv_shape_1axis"
     /\ call.args.border_mode = StrV("full")
     /\ call.args.kernel_shape = IntV(3)
     /\ call.args.image_shape = IntV(1)
     /\ call.args.subsample = IntV(1)
     /\ call.args.dilation = IntV(1)
     /\ call.result = IntV(3)

ShapeFns1 == {"get_conv_shape_1axis", "get_conv_gradweights_shape_1axis",
              "get_conv_gradinputs_shape_1axis"}

\* C6: a None among the arguments of any of the three single-axis shape
\* functions yields the result None.
C6_NonePropagates ==
  (call.fn \in ShapeFns1 /\ ~Known(call.args)) => call.result = None

\* a call whose only unknown argument is the dilation has returned None
C6_Witness ==
  /\ call.fn = "get_conv_shape_1axis"
  /\ call.args.dilation = None
  /\ \A f \in DOMAIN call.args \ {"dilation"} : call.args[f] # None
  /\ call.result = None

\* C7 as stated: with all arguments known (and no negative padding),
\* get_conv_gradweights_shape_1axis returns None exactly when subsample # 1 or
\* border_mode = "half", get_conv_gradinputs_shape_1axis returns None exactly
\* when subsample # 1, and in every other case the result is an integer.
C7_Original ==
  (/\ call.fn \in {"get_conv_gradweights_shape_1axis", "get_conv_gradinputs_shape_1axis"}
   /\ Known(call.args)
   /\ NonNegativeMode(call.args.border_mode))
  => LET unknown ==
           IF call.fn = "get_conv_gradweights_shape_1axis"
           THEN call.args.subsample.v # 1 \/ call.args.border_mode = StrV("half")
           ELSE call.args.subsample.v # 1
     IN /\ (call.result = None) <=> unknown
        /\ ~unknown => call.result.t = "int"

\* an explicit border mode (integer or pair) with a negative component
NegativeMode(bm) ==
  \/ bm.t = "int" /\ bm.v < 0
  \/ bm.t = "tuple" /\ (bm.v[1].v < 0 \/ bm.v[2].v < 0)

\* C14 as stated: the three single-axis shape functions raise ValueError
\* whenever border_mode is an explicit integer or pair with a negative
\* component, whatever the other arguments are.
C14_Original ==
  (call.fn \in ShapeFns1 /\ NegativeMode(call.args.border_mode))
  => call.result = Raise("ValueError")

\* the function returns None before it looks at the padding: an argument is
\* None, or a gradient function is given a subsample other than 1
ReturnsUnknownFirst ==
  \/ ~Known(call.args)
  \/ /\ call.fn \in {"get_conv_gradweights_shape_1axis", "get_conv_gradinputs_shape_1axis"}
     /\ call.args.subsample.v # 1

\* C14, amended: with a negative explicit border mode the three functions
\* raise ValueError when every argument is known and, for the two gradient
\* functions, subsample is 1; otherwise they return None without raising.
C14_NegativePaddingRaises ==
  (call.fn \in ShapeFns1 /\ NegativeMode(call.args.border_mode))
  => call.result = IF ReturnsUnknownFirst THEN None ELSE Raise("ValueError")

\* get_conv_shape_1axis has raised for a pair whose right padding alone is
\* negative, with a stride
C14_Witness ==
  /\ call.fn = "get_conv_shape_1axis"
  /\ Known(call.args)
  /\ call.args.border_mode = PairV(MaxPad, -1)
  /\ call.args.subsample = IntV(MaxStride)
  /\ call.result = Raise("ValueError")

(***************************************************************************)
(* Inputs of the full-tensor shape functions: 2D and 3D shapes whose axes  *)
(* differ, so that an axis mix-up shows.                                   *)
(***************************************************************************)
Convdims == {2, 3}
BatchSizes == {1, 2}
ImageSpatial(cd, x) == [a \in 1..cd |-> x + (a - 1)]
KernelSpatial(cd, k) == [a \in 1..cd |-> IF a = 2 THEN k + 1 ELSE k]
StrideTuple(cd, s) == [a \in 1..cd |-> IF a = 1 THEN s ELSE 1]
DilationTuple(cd, d) == [a \in 1..cd |-> IF a = 2 THEN d ELSE 1]
TensorBorderModes(cd) ==
  NamedModes \cup {IntV(MaxPad - 1)}
    \cup {TupleV([a \in 1..cd |-> IF a = 1 THEN IntV(p) ELSE PairV(p, MaxPad)]) : p \in {0, 1}}

Call_get_conv_output_shape ==
  /\ call = NoCall
  /\ \E cd \in Convdims, B \in BatchSizes, C \in 1..MaxChan, N \in 1..MaxGroups,
        g \in 1..MaxGroups, x \in {MaxImage - 1, MaxImage}, k \in {1, MaxKernel - 1},
        s \in 1..MaxStride, d \in 1..MaxDilation :
       \E bm \in TensorBorderModes(cd) :
         LET image_shape == Ints(<<B, C>> \o ImageSpatial(cd, x))
             kernel_shape == Ints(<<N, C \div g>> \o KernelSpatial(cd, k))
             subsample == Ints(StrideTuple(cd, s))
             filter_dilation == Ints(DilationTuple(cd, d))
         IN /\ C \div g >= 1
            /\ call' = [fn |-> "get_conv_output_shape",
                        args |-> [image_shape |-> image_shape,
                                  kernel_shape |-> kernel_shape,
                                  border_mode |-> bm, subsample |-> subsample,
                                  filter_dilation |-> filter_dilation],
                        result |-> get_conv_output_shape(image_shape, kernel_shape, bm,
                                                         subsample, filter_dilation)]
  /\ UNCHANGED <<op, origin, out>>

\* forward -> grad-inputs: the top shape is the shape the forward call returned
Call_get_conv_gradinputs_shape ==
  /\ call.fn = "get_conv_output_shape"
  /\ ~IsRaise(call.result)
  /\ \E G \in 1..MaxGroups :
       call' = [fn |-> "get_conv_gradinputs_shape",
                fwd |-> call.args,
                args |-> [kernel_shape |-> call.args.kernel_shape,
                          top_shape |-> call.result.v,
                          border_mode |-> call.args.border_mode,
                          subsample |-> call.args.subsample,
                          filter_dilation |-> call.args.filter_dilation,
                          num_groups |-> G],
                result |-> get_conv_gradinputs_shape(call.args.kernel_shape,
                              call.result.v, call.args.border_mode, call.args.subsample,
                              call.args.filter_dilation, G)]
  /\ UNCHANGED <<op, origin, out>>

\* forward -> grad-weights: the top shape is the shape the forward call returned
Call_get_conv_gradweights_shape ==
  /\ call.fn = "get_conv_output_shape"
  /\ ~IsRaise(call.result)
  /\ \E G \in 1..MaxGroups :
       call' = [fn |-> "get_conv_gradweights_shape",
                fwd |-> call.args,
                args |-> [image_shape |-> call.args.image_shape,
                          top_shape |-> call.result.v,
                          border_mode |-> call.args.border_mode,
                          subsample |-> call.args.subsample,
                          filter_dilation |-> call.args.filter_dilation,
                          num_groups |-> G,
                          unshared |-> FALSE],
                result |-> get_conv_gradweights_shape(call.args.image_shape,
                              call.result.v, call.args.border_mode, call.args.subsample,
                              call.args.filter_dilation, G, FALSE)]
  /\ UNCHANGED <<op, origin, out>>

NextShapeN ==
  \/ Call_get_conv_output_shape
  \/ Call_get_conv_gradinputs_shape
  \/ Call_get_conv_gradweights_shape
  \/ Return

\* the full-tensor shape functions, forward then one of the two gradients
SpecShapeN == Init /\ [][NextShapeN]_vars

(***************************************************************************)
(* Properties of the full-tensor shape functions (under SpecShapeN).       *)
(***************************************************************************)
AllOnes(t) == \A i \in DOMAIN t : t[i] = IntV(1)

\* C8 as stated: with subsample all 1, for every image shape (B, C, I...) and
\* kernel shape (N, C // num_groups, K...), get_conv_gradinputs_shape of the
\* forward output shape is the image shape.
C8_Original ==
  (/\ call.fn = "get_conv_gradinputs_shape"
   /\ AllOnes(call.args.subsample)
   /\ call.fwd.kernel_shape[2] = IntV(call.fwd.image_shape[2].v \div call.args.num_groups))
  => call.result = TupleV(call.fwd.image_shape)

\* C8, amended: the same when the number of image channels C is divisible by
\* num_groups.
C8_RoundTripInputs ==
  (/\ call.fn = "get_conv_gradinputs_shape"
   /\ AllOnes(call.args.subsample)
   /\ call.fwd.image_shape[2].v % call.args.num_groups = 0
   /\ call.fwd.kernel_shape[2] = IntV(call.fwd.image_shape[2].v \div call.args.num_groups))
  => call.result = TupleV(call.fwd.image_shape)

\* a grouped, dilated, asymmetrically padded 3D round trip has returned the image shape
C8_Witness ==
  /\ call.fn = "get_conv_gradinputs_shape"
  /\ AllOnes(call.args.subsample)
  /\ call.args.num_groups = 2
  /\ call.fwd.image_shape[2] = IntV(2)
  /\ call.fwd.kernel_shape[2] = IntV(1)
  /\ Len(call.fwd.image_shape) = 5
  /\ call.args.border_mode.t = "tuple"
  /\ call.args.filter_dilation[2] = IntV(2)
  /\ call.result = TupleV(call.fwd.image_shape)

\* C9 as stated: with subsample all 1 and a border mode other than "half",
\* get_conv_gradweights_shape of the forward output shape is the kernel shape
\* (N, C // num_groups, K...), with integer entries.
C9_Original ==
  (/\ call.fn = "get_conv_gradweights_shape"
   /\ AllOnes(call.args.subsample)
   /\ call.args.border_mode # StrV("half")
   /\ call.fwd.image_shape[2].v % call.args.num_groups = 0
   /\ call.fwd.kernel_shape[1].v % call.args.num_groups = 0
   /\ call.fwd.kernel_shape[2] = IntV(call.fwd.image_shape[2].v \div call.args.num_groups))
  => call.result = TupleV(call.fwd.kernel_shape)

(***************************************************************************)
(* Operators: construction and grad.                                       *)
(***************************************************************************)
Kinds == {"Forward", "GradWeights", "GradInputs"}

\* border modes given to a constructor: named, integer, and tuples holding
\* integers, asymmetric pairs and symmetric pairs
CtorBorderModes(cd) ==
  NamedModes \cup {IntV(p) : p \in 0..(MaxPad - 1)}
    \cup {TupleV([a \in 1..cd |-> IF a = 1 THEN IntV(p) ELSE PairV(p, MaxPad)]) : p \in {0, 1}}
    \cup {TupleV([a \in 1..cd |-> IF a = 1 THEN PairV(p, p) ELSE IntV(p)]) : p \in {0, 1}}

CtorImshp(cd) ==
  {None, TupleV(Ints(<<1, 2>> \o ImageSpatial(cd, MaxImage))),
   TupleV(<<None, IntV(2)>> \o [a \in 1..cd |-> IF a = 1 THEN IntV(MaxImage) ELSE None])}

CtorKshp(cd, unshared) ==
  {None, IF unshared THEN TupleV(Ints(<<2, 2, 2, 1>> \o KernelSpatial(cd, 2)))
         ELSE TupleV(Ints(<<2, 1>> \o KernelSpatial(cd, 2)))}

\* the arguments of a constructor call of one of the 2D or 3D classes (the
\* 3D classes take no unshared argument: FALSE is what they pass on)
CtorArgs(kinds) ==
  UNION {
    {[kind |-> kind, convdim |-> cu[1], imshp |-> imshp, kshp |-> kshp, border_mode |-> bm,
      subsample |-> ss, filter_flip |-> flip, filter_dilation |-> fd, num_groups |-> G,
      unshared |-> cu[2]] :
       kind \in kinds, imshp \in CtorImshp(cu[1]), kshp \in CtorKshp(cu[1], cu[2]),
       bm \in CtorBorderModes(cu[1]) \cup {IntV(-1)},
       ss \in {None, TupleV(StrideTuple(cu[1], MaxStride))}, flip \in BOOLEAN,
       fd \in {None, TupleV(DilationTuple(cu[1], MaxDilation))}, G \in 1..MaxGroups} :
    cu \in {<<2, FALSE>>, <<2, TRUE>>, <<3, FALSE>>}}

ClassInit(a) ==
  IF a.convdim = 2
  THEN Conv2d_init(a.kind, a.imshp, a.kshp, a.border_mode, a.subsample, a.filter_flip,
                   a.filter_dilation, a.num_groups, a.unshared)
  ELSE Conv3d_init(a.kind, a.imshp, a.kshp, a.border_mode, a.subsample, a.filter_flip,
                   a.filter_dilation, a.num_groups)

\* op = Class(imshp, kshp, border_mode, ...): a raising constructor leaves no
\* operator
Construct(Args) ==
  /\ call = NoCall
  /\ op = NoOp
  /\ \E a \in Args :
       LET r == ClassInit(a)
       IN /\ call' = [fn |-> "__init__", args |-> a,
                      result |-> IF IsRaise(r) THEN r ELSE None]
          /\ op' = IF IsRaise(r) THEN NoOp ELSE r
          /\ origin' = IF IsRaise(r) THEN NoOp ELSE r
  /\ UNCHANGED out

\* op.grad(inp, grads); the chain goes on with either operator it built
Grad ==
  /\ call = NoCall
  /\ op # NoOp
  /\ LET r == grad(op)
     IN \E i \in 1..2 :
          /\ call' = [fn |-> "grad", self |-> op, result |-> r]
          /\ op' = IF IsRaise(r.v[i].op) THEN op ELSE r.v[i].op
  /\ UNCHANGED <<origin, out>>

NextOp == Construct(CtorArgs(Kinds)) \/ Grad \/ Return

SpecOp == Init /\ [][NextOp]_vars

\* C4: the operator family is closed under grad: Forward.grad builds
\* GradInputs and GradWeights, GradWeights.grad builds GradInputs and Forward,
\* GradInputs.grad builds GradWeights and Forward, every one with exactly the
\* parameters (imshp, kshp, border_mode, subsample, filter_flip,
\* filter_dilation, num_groups, and unshared in 2D) of the operator
\* differentiated, whose own parameters stay what they were; so every operator
\* reached by a chain of grad steps has the parameters of the first one.
C4_GradClosed ==
  /\ op # NoOp => Props(op) = Props(origin)
  /\ call.fn = "grad" =>
       /\ Props(call.self) = Props(origin)
       /\ \A i \in 1..2 :
            /\ ~IsRaise(call.result.v[i].op)
            /\ Props(call.result.v[i].op) = Props(call.self)
       /\ <<call.result.v[1].op.kind, call.result.v[2].op.kind>> =
            (IF call.self.kind = "Forward" THEN <<"GradInputs", "GradWeights">>
             ELSE IF call.self.kind = "GradWeights" THEN <<"GradInputs", "Forward">>
             ELSE <<"GradWeights", "Forward">>)

\* a 2D unshared grouped operator with an asymmetric pad, a stride differing
\* from the dilation and partly known shapes, two grad steps from its origin
C4_Witness ==
  /\ call.fn = "grad"
  /\ origin.kind = "Forward"
  /\ call.self.kind = "GradInputs"
  /\ op.kind = "GradWeights"
  /\ op.convdim = 2 /\ op.unshared /\ op.num_groups = MaxGroups
  /\ op.border_mode = TupleV(<<IntV(1), PairV(1, MaxPad)>>)
  /\ op.subsample # op.filter_dilation
  /\ op.imshp[1] = None /\ op.imshp[2] # None
  /\ ~op.filter_flip

(***************************************************************************)
(* The reference implementations (perform), on the shapes of the arrays.   *)
(* An array is ndarray(shape); numpy's own failures (a negative dimension  *)
(* given to np.zeros, an assignment that cannot broadcast, a reshape that  *)
(* changes the size, an index out of range) are the exceptions it raises.  *)
(***************************************************************************)
ndarray(shape) == [t |-> "ndarray", shape |-> shape]
RaiseMsg(exc, msg) == [t |-> "raise", exc |-> exc, msg |-> msg]
IntsOf(s) == [i \in DOMAIN s |-> s[i].v]
Max(a, b) == IF a >= b THEN a ELSE b
\* Only({f(x) : x \in {e}}) is f(e), with the intermediate value e computed once
Only(S) == CHOOSE x \in S : TRUE
Min(a, b) == IF a <= b THEN a ELSE b

\* np.zeros(shape) raises ValueError on a negative dimension
NegativeDim(shape) == \E i \in DOMAIN shape : shape[i] < 0
\* len(range(n)[::step])
SliceLen(n, step) == (n + step - 1) \div step
\* len(range(n)[lo:hi]) with Python's treatment of a negative hi
CropLen(n, lo, hi) ==
  LET stop == IF hi < 0 THEN Max(0, n + hi) ELSE Min(hi, n)
  IN Max(0, stop - Min(lo, n))
\* dst[...] = src: src must broadcast to the shape of the destination
CanAssign(dst, src) ==
  Len(dst) = Len(src) /\ \A i \in DOMAIN dst : src[i] = dst[i] \/ src[i] = 1
\* (k - 1) * d + 1 on every axis
Dilated(kshp, dilation) == [i \in DOMAIN kshp |-> (kshp[i] - 1) * dilation[i] + 1]
\* a[:, :, ::step[0], ::step[1], ...] on the axes lo.., the others whole
Strided(shape, lo, step) ==
  [i \in DOMAIN shape |->
     IF i >= lo /\ i < lo + Len(step) THEN SliceLen(shape[i], step[i - lo + 1]) ELSE shape[i]]
AnyAbove1(t) == \E i \in DOMAIN t : t[i] > 1

(***************************************************************************)
(* border_mode_to_pad (abstract_conv.py 600-659): TupleV of TupleV(<<l,r>>)*)
(***************************************************************************)
\* an entry loop that swaps the two sides of a pair
pad_entry_swapped(m) ==
  IF m.t = "int" /\ m.v >= 0 THEN TupleV(<<m.v, m.v>>)
  ELSE IF m.t = "tuple" /\ \A j \in DOMAIN m.v : m.v[j].t = "int" /\ m.v[j].v >= 0
    THEN IF Len(m.v) # 2 THEN Raise("NotImplementedError")
         ELSE TupleV(<<m.v[2].v, m.v[1].v>>)
  ELSE Raise("ValueError")

\* lines 629-645: the pad of one entry of a border_mode tuple
pad_entry(m) ==
  IF m.t = "int" /\ m.v >= 0 THEN TupleV(<<m.v, m.v>>)
  ELSE IF m.t = "tuple" /\ \A j \in DOMAIN m.v : m.v[j].t = "int" /\ m.v[j].v >= 0
    THEN IF Len(m.v) # 2 THEN Raise("NotImplementedError")
         ELSE TupleV(<<m.v[1].v, m.v[2].v>>)
  ELSE Raise("ValueError")

\* "half" padded like "full"
border_mode_to_pad_half_as_full(mode, convdim, kshp) ==
  IF mode.t = "tuple"
  THEN IF Len(mode.v) # convdim THEN Raise("ValueError")
       ELSE AxisResults([i \in 1..convdim |-> pad_entry(mode.v[i])])
  ELSE IF mode = StrV("full") \/ mode = StrV("half")
    THEN TupleV([i \in 1..convdim |-> TupleV(<<kshp[i] - 1, kshp[i] - 1>>)])
  ELSE IF mode = StrV("valid")
    THEN TupleV([i \in 1..convdim |-> TupleV(<<0, 0>>)])
  ELSE Raise("ValueError")

border_mode_to_pad(mode, convdim, kshp) ==
  IF mode.t = "tuple"
  THEN IF Len(mode.v) # convdim THEN Raise("ValueError")
       ELSE AxisResults([i \in 1..convdim |-> pad_entry(mode.v[i])])
  ELSE IF mode = StrV("full")
    THEN TupleV([i \in 1..convdim |-> TupleV(<<kshp[i] - 1, kshp[i] - 1>>)])
  ELSE IF mode = StrV("half")
    THEN TupleV([i \in 1..convdim |-> TupleV(<<kshp[i] \div 2, kshp[i] \div 2>>)])
  ELSE IF mode = StrV("valid")
    THEN TupleV([i \in 1..convdim |-> TupleV(<<0, 0>>)])
  ELSE Raise("ValueError")

PadL(pad, i) == pad.v[i].v[1]
PadR(pad, i) == pad.v[i].v[2]
AnyPad(pad) == \E i \in DOMAIN pad.v : pad.v[i] # TupleV(<<0, 0>>)
\* the shape of the zero-padded image (perform, 2516-2537 and 2852-2873)
PaddedShape(img, pad) ==
  [i \in DOMAIN img |-> IF i <= 2 THEN img[i] ELSE img[i] + PadL(pad, i - 2) + PadR(pad, i - 2)]

(***************************************************************************)
(* BaseAbstractConv.conv and unshared2d (abstract_conv.py 2269-2423) on    *)
(* shapes.  img, kern: shapes; mode: "valid" or "full"; dilation: a tuple. *)
(***************************************************************************)
\* one call of _convolve2d (2D) or scipy.signal.convolve (3D) in the loop:
\* TRUE when it returns an array of the shape of out[b, n, ...].  Operands
\* without elements are rejected; in 3D "valid" needs the image at least as
\* large as the kernel on every axis (otherwise scipy raises, or swaps the
\* operands and the sum cannot broadcast).
convolve_ok(convdim, img, dil_kern, mode, out_shape) ==
  /\ \A i \in 3..Len(img) : img[i] >= 1
  /\ \A i \in 3..Len(dil_kern) : dil_kern[i] >= 1
  /\ (convdim = 3 /\ mode = "valid") => \A i \in 3..Len(out_shape) : out_shape[i] >= 1

\* unshared2d (2389-2423): TRUE when no index runs out of range.
\* inp: the 2D slice, kern: (rows, cols, kH, kW), out_shape: out_shape[2:]
unshared2d_ok(inp, kern, out_shape, direction) ==
  IF direction = "forward"
  THEN (out_shape[1] >= 1 /\ out_shape[2] >= 1)
         => (out_shape[1] <= kern[1] /\ out_shape[2] <= kern[2])
  ELSE IF direction = "backprop weights"
  THEN TRUE
  ELSE (kern[1] >= 1 /\ kern[2] >= 1) => (kern[1] <= inp[1] /\ kern[2] <= inp[2])

conv(self, img, kern, mode, dilation, num_groups, unshared, direction) ==
  LET cd == self.convdim
      nk == Len(kern)
      dil_kern_shp == [i \in 1..nk |-> IF i <= nk - cd THEN kern[i]
                                       ELSE (kern[i] - 1) * dilation[i - (nk - cd)] + 1]
      input_channel_offset == img[2] \div self.num_groups
      output_channel_offset == kern[1] \div self.num_groups
      loops == img[1] >= 1 /\ output_channel_offset >= 1 /\ input_channel_offset >= 1
  IN IF mode \notin {"valid", "full"} THEN Raise("ValueError")
     ELSE IF Len(dilation) # cd THEN Raise("ValueError")
     ELSE IF unshared /\ direction = "backprop weights" /\ mode # "valid"
       THEN Raise("ValueError")
     ELSE Only({
       IF IsRaise(out_shape_r) THEN out_shape_r
       ELSE IF NegativeDim(dil_kern_shp) \/ NegativeDim(IntsOf(out_shape_r.v))
         THEN Raise("ValueError")
       ELSE IF img[2] % self.num_groups # 0 THEN Raise("ValueError")
       ELSE IF kern[1] % self.num_groups # 0 THEN Raise("ValueError")
       ELSE IF img[2] \div num_groups # kern[2] THEN Raise("ValueError")
       ELSE IF cd = 2
         THEN IF unshared
              THEN IF loops /\ ~unshared2d_ok(Tail_from(img, 3), Tail_from(dil_kern_shp, 3),
                                              Tail_from(IntsOf(out_shape_r.v), 3), direction)
                   THEN Raise("IndexError")
                   ELSE ndarray(IntsOf(out_shape_r.v))
              ELSE IF loops /\ ~convolve_ok(cd, img, dil_kern_shp, mode,
                                            IntsOf(out_shape_r.v))
                   THEN Raise("ValueError")
                   ELSE ndarray(IntsOf(out_shape_r.v))
       ELSE IF cd = 3
         THEN IF unshared THEN Raise("NotImplementedError")
              ELSE IF loops /\ ~convolve_ok(cd, img, dil_kern_shp, mode,
                                            IntsOf(out_shape_r.v))
                   THEN Raise("ValueError")
                   ELSE ndarray(IntsOf(out_shape_r.v))
       ELSE Raise("NotImplementedError") :
       out_shape_r \in {
         IF unshared /\ direction = "backprop weights"
         THEN TupleV(Ints(<<img[1], kern[1], kern[3], kern[4],
                            img[3] - kern[3] + 1, img[4] - kern[4] + 1>>))
         ELSE get_conv_output_shape(Ints(img), Ints(kern), StrV(mode), Ints(Ones(cd)),
                                    Ints(dilation))}})

(***************************************************************************)
(* AbstractConv.perform (abstract_conv.py 2497-2602) and infer_shape       *)
(* (2619-2643).  img, kern: the shapes of the input arrays.                *)
(***************************************************************************)
\* lines 2544-2585: the unshared kernel (nFilters, out_rows, out_cols,
\* nChannels, kH, kW) checked, expanded for the stride and transposed
forward_unshared_kern(self, img, kern, mode) ==
  LET cd == self.convdim
      strided == AnyAbove1(self.subsample)
  IN Only({
       IF IsRaise(out_shape) THEN out_shape
       ELSE IF SubSeq(kern, 2, 1 + cd) # SubSeq(IntsOf(out_shape.v), 3, 2 + cd)
         THEN Raise("ValueError")
       ELSE IF ~strided
         THEN ndarray(<<kern[1], kern[2 + cd]>> \o SubSeq(kern, 2, 1 + cd)
                        \o Tail_from(kern, 3 + cd))
       ELSE Only({
         IF NegativeDim(exp_kern_shp) THEN Raise("ValueError")
         ELSE IF ~CanAssign(Strided(exp_kern_shp, 2, self.subsample), kern)
           THEN Raise("ValueError")
         ELSE ndarray(<<exp_kern_shp[1], exp_kern_shp[2 + cd]>>
                        \o SubSeq(exp_kern_shp, 2, 1 + cd)
                        \o Tail_from(exp_kern_shp, 3 + cd)) :
         exp_kern_shp \in {
           <<kern[1]>>
             \o SubSeq(IntsOf(get_conv_output_shape(Ints(img), Ints(kern), mode,
                         Ints(Ones(cd)), Ints(self.filter_dilation)).v), 3, 2 + cd)
             \o Tail_from(kern, 2 + cd)}}) :
       out_shape \in {get_conv_output_shape(Ints(img), Ints(kern), mode,
                         Ints(self.subsample), Ints(self.filter_dilation))}})

AbstractConv_perform(self, img, kern) ==
  LET cd == self.convdim
      dil_kernshp == Dilated(LastN(kern, cd), self.filter_dilation)
  IN IF self.unshared /\ cd # 2 THEN Raise("NotImplementedError")
     ELSE Only({
       IF IsRaise(pad) THEN pad
       ELSE
         LET mode == IF AnyPad(pad) THEN StrV("valid") ELSE self.border_mode
             img1 == IF AnyPad(pad) THEN PaddedShape(img, pad) ELSE img
         IN Only({
              IF IsRaise(kern1) THEN kern1
              ELSE Only({
                IF IsRaise(conv_out) THEN conv_out
                ELSE ndarray(Strided(conv_out.shape, 3, self.subsample)) :
                conv_out \in {conv(self, img1, kern1.shape, "valid", self.filter_dilation,
                                   self.num_groups, self.unshared, "forward")}}) :
              kern1 \in {IF self.unshared THEN forward_unshared_kern(self, img1, kern, mode)
                         ELSE ndarray(kern)}}) :
       pad \in {border_mode_to_pad(self.border_mode, cd, dil_kernshp)}})

\* entry i of the static shape when known, of the run-time shape otherwise
MergeStatic(static, runtime) ==
  [i \in DOMAIN static |-> IF static[i] = None THEN runtime[i] ELSE static[i]]

\* input_shapes: the shapes of img and kern (sequences of IntV)
AbstractConv_infer_shape(self, imshp, kshp) ==
  get_conv_output_shape(MergeStatic(self.imshp, imshp), MergeStatic(self.kshp, kshp),
                        self.border_mode, Ints(self.subsample), Ints(self.filter_dilation))

(***************************************************************************)
(* AbstractConv_gradWeights.perform (2834-2960) and infer_shape (2965-2999)*)
(* img, topgrad: shapes of the input arrays; shape: the `shape` input.     *)
(***************************************************************************)
\* lines 2921-2960: the stride slice (unshared), the transpose and the
\* dilation slice applied to what conv returned
gradWeights_finish(self, kern) ==
  LET cd == self.convdim
      k1 == IF self.unshared /\ AnyAbove1(self.subsample)
            THEN Strided(kern, 3, self.subsample) ELSE kern
      k2 == IF self.unshared
            THEN SubSeq(k1, 2, cd + 2) \o <<k1[1]>> \o Tail_from(k1, cd + 3)
            ELSE <<k1[2], k1[1]>> \o Tail_from(k1, 3)
  IN IF AnyAbove1(self.filter_dilation)
     THEN ndarray(Strided(k2, Len(k2) - cd + 1, self.filter_dilation))
     ELSE ndarray(k2)

AbstractConv_gradWeights_perform(self, img, topgrad, shape) ==
  LET cd == self.convdim
      G == self.num_groups
      dil_shape == Dilated(SubSeq(shape, 1, cd), self.filter_dilation)
      strided == AnyAbove1(self.subsample)
  IN IF self.unshared /\ cd # 2 THEN Raise("NotImplementedError")
     ELSE Only({
       IF IsRaise(pad) THEN pad
       ELSE
         LET img1 == IF AnyPad(pad) THEN PaddedShape(img, pad) ELSE img
             new_shape == <<topgrad[1], topgrad[2]>>
                            \o [i \in 1..cd |-> img1[i + 2] - dil_shape[i] + 1]
             topgrad1 == IF strided THEN new_shape ELSE topgrad
             topgradT == <<topgrad1[2], topgrad1[1]>> \o Tail_from(topgrad1, 3)
             imgT == <<img1[2], img1[1]>> \o Tail_from(img1, 3)
             \* correct_for_groups (2898-2904)
             imgG == IF G > 1 THEN <<imgT[1] \div G, imgT[2] * G>> \o Tail_from(imgT, 3)
                     ELSE imgT
         IN IF strided /\ NegativeDim(new_shape) THEN Raise("ValueError")
            ELSE IF strided /\ ~CanAssign(Strided(new_shape, 3, self.subsample), topgrad)
              THEN Raise("ValueError")
            ELSE IF G > 1 /\ imgT[1] % G # 0 THEN Raise("ValueError")
            ELSE Only({
              IF IsRaise(kern) THEN kern ELSE gradWeights_finish(self, kern.shape) :
              kern \in {IF self.unshared
                        THEN conv(self, imgG, topgradT, "valid", Ones(cd), G, TRUE,
                                  "backprop weights")
                        ELSE conv(self, imgG, topgradT, "valid", Ones(cd), G, FALSE,
                                  "forward")}}) :
       pad \in {border_mode_to_pad(self.border_mode, cd, dil_shape)}})

\* input_shapes: the shapes of img and topgrad; shape: node.inputs[2]
AbstractConv_gradWeights_infer_shape(self, imshp, topshp, shape) ==
  LET cd == self.convdim
      fallback_kshp ==
        IF self.unshared
        THEN <<topshp[2], topshp[3], topshp[4], IntV(imshp[2].v \div self.num_groups)>>
               \o [i \in 1..cd |-> shape[i]]
        ELSE <<topshp[2], IntV(imshp[2].v \div self.num_groups)>>
               \o [i \in 1..cd |-> shape[i]]
  IN TupleV(MergeStatic(self.kshp, fallback_kshp))

(***************************************************************************)
(* AbstractConv_gradInputs.perform (3203-3354) and infer_shape (3359-3379) *)
(* kern, topgrad: shapes of the input arrays; shape: the `shape` input.    *)
(***************************************************************************)
InvalidInputShape == RaiseMsg("ValueError", "invalid input_shape for gradInputs")

\* a candidate image shape that takes the `shape` input and never imshp
gradInputs_imshp_from_shape_input(self, kern, topgrad, shape) ==
  Ints(<<topgrad[1], kern[Len(kern) - self.convdim]>> \o SubSeq(shape, 1, self.convdim))

\* lines 3220-3227: the candidate image shape
gradInputs_imshp(self, kern, topgrad, shape) ==
  LET fallback_imshp == Ints(<<topgrad[1], kern[Len(kern) - self.convdim]>>
                               \o SubSeq(shape, 1, self.convdim))
  IN MergeStatic(self.imshp, fallback_imshp)

\* lines 3228-3230
gradInputs_expected_topgrad_shape(self, kern, topgrad, shape) ==
  get_conv_output_shape(gradInputs_imshp(self, kern, topgrad, shape), Ints(kern),
                        self.border_mode, Ints(self.subsample), Ints(self.filter_dilation))

\* correct_for_groups (3275-3297): the shape, or the reshape's ValueError
gradInputs_correct_for_groups(self, mat) ==
  LET cd == self.convdim
      mshp0 == mat[1] \div self.num_groups
      mshp1 == mat[Len(mat) - cd] * self.num_groups
  IN IF mat[1] % self.num_groups # 0 THEN Raise("ValueError")
     ELSE IF self.unshared
       THEN ndarray(<<mshp0>> \o SubSeq(mat, 2, 1 + cd) \o <<mshp1>> \o LastN(mat, cd))
     ELSE ndarray(<<mshp0, mshp1>> \o LastN(mat, cd))

\* lines 3237-3354: what follows the check of the topgrad shape
gradInputs_backprop(self, kern, topgrad, shape, pad) ==
  LET cd == self.convdim
      dil_kernshp == Dilated(LastN(kern, cd), self.filter_dilation)
      strided == AnyAbove1(self.subsample)
      new_shape == <<topgrad[1], topgrad[2]>>
                     \o [i \in 1..cd |-> shape[i] + PadL(pad, i) + PadR(pad, i)
                                           - dil_kernshp[i] + 1]
      topgrad1 == IF strided THEN new_shape ELSE topgrad
      exp_kern_shp == <<kern[1]>> \o Tail_from(topgrad1, 3) \o Tail_from(kern, 2 + cd)
      kern1 == IF strided /\ self.unshared THEN exp_kern_shp ELSE kern
  IN IF strided /\ NegativeDim(new_shape) THEN Raise("ValueError")
     ELSE IF strided /\ ~CanAssign(Strided(new_shape, 3, self.subsample), topgrad)
       THEN Raise("ValueError")
     ELSE IF strided /\ self.unshared
             /\ ~CanAssign(Strided(exp_kern_shp, 2, self.subsample), kern)
       THEN Raise("ValueError")
     ELSE Only({
       IF IsRaise(kernG) THEN kernG
       ELSE Only({
         IF IsRaise(img) THEN img
         ELSE IF AnyPad(pad)
           THEN ndarray([i \in DOMAIN img.shape |->
                           IF i <= 2 THEN img.shape[i]
                           ELSE CropLen(img.shape[i], PadL(pad, i - 2),
                                        img.shape[i] - PadR(pad, i - 2))])
         ELSE img :
         img \in {IF self.unshared
                  THEN conv(self, topgrad1,
                            <<kernG.shape[2 + cd], kernG.shape[1]>>
                              \o SubSeq(kernG.shape, 2, 1 + cd)
                              \o Tail_from(kernG.shape, 3 + cd),
                            "full", self.filter_dilation, self.num_groups, TRUE,
                            "backprop inputs")
                  ELSE conv(self, topgrad1,
                            <<kernG.shape[2], kernG.shape[1]>> \o Tail_from(kernG.shape, 3),
                            "full", self.filter_dilation, self.num_groups, FALSE,
                            "forward")}}) :
       kernG \in {gradInputs_correct_for_groups(self, kern1)}})

AbstractConv_gradInputs_perform(self, kern, topgrad, shape) ==
  LET cd == self.convdim
      dil_kernshp == Dilated(LastN(kern, cd), self.filter_dilation)
  IN IF self.unshared /\ cd # 2 THEN Raise("NotImplementedError")
     ELSE Only({
       IF IsRaise(pad) THEN pad
       ELSE Only({
         IF IsRaise(expected_topgrad_shape) THEN expected_topgrad_shape
         ELSE IF expected_topgrad_shape.v # Ints(topgrad) THEN InvalidInputShape
         ELSE gradInputs_backprop(self, kern, topgrad, shape, pad) :
         expected_topgrad_shape \in
           {gradInputs_expected_topgrad_shape(self, kern, topgrad, shape)}}) :
       pad \in {border_mode_to_pad(self.border_mode, cd, dil_kernshp)}})

\* input_shapes: the shapes of kern and topgrad; shape: node.inputs[2]
AbstractConv_gradInputs_infer_shape(self, kshp, topshp, shape) ==
  LET cd == self.convdim
      nchan == kshp[Len(kshp) - cd]
      fallback_imshp ==
        IF self.num_groups > 1
        THEN <<topshp[1], IntV(nchan.v * self.num_groups)>> \o [i \in 1..cd |-> shape[i]]
        ELSE <<topshp[1], nchan>> \o [i \in 1..cd |-> shape[i]]
  IN TupleV(MergeStatic(self.imshp, fallback_imshp))

(***************************************************************************)
(* Operators and arrays given to perform.                                  *)
(***************************************************************************)
PerformBorderModes(cd) ==
  NamedModes \cup {IntV(MaxPad - 1)}
    \cup (IF cd = 2 THEN {TupleV(<<IntV(0), PairV(1, MaxPad)>>)} ELSE {})

\* static shapes <<imshp, kshp>>: unknown, or partly known (channels and
\* first spatial size of the image, number of filters of the kernel)
PerformStatic(cd, unshared) ==
  {<<None, None>>,
   <<TupleV(<<None, IntV(2), IntV(MaxImage)>> \o [a \in 1..(cd - 1) |-> None]),
     TupleV(<<IntV(MaxGroups)>>
              \o [a \in 1..(IF unshared THEN 2 * cd + 1 ELSE cd + 1) |-> None])>>}

PerformCtorArgs ==
  UNION {
    {[kind |-> kind, convdim |-> cu[1], imshp |-> st[1], kshp |-> st[2], border_mode |-> bm,
      subsample |-> ss, filter_flip |-> flip, filter_dilation |-> fd, num_groups |-> G,
      unshared |-> cu[2]] :
       kind \in Kinds, st \in PerformStatic(cu[1], cu[2]),
       bm \in PerformBorderModes(cu[1]),
       ss \in {None, TupleV(StrideTuple(cu[1], MaxStride))}, flip \in {TRUE},
       fd \in {None, TupleV(DilationTuple(cu[1], MaxDilation))}, G \in 1..MaxGroups} :
    cu \in {<<2, FALSE>>, <<2, TRUE>>, <<3, FALSE>>}}

\* the spatial output size of a forward pass of operator o over an image of
\* spatial size X and a kernel of spatial size K
ForwardSpatial(o, X, K) ==
  IntsOf(Tail_from(get_conv_output_shape(Ints(<<1, 1>> \o X), Ints(<<1, 1>> \o K),
                      o.border_mode, Ints(o.subsample), Ints(o.filter_dilation)).v, 3))
\* t with 1 added on axis a
Plus1(t, a) == [i \in DOMAIN t |-> IF i = a THEN t[i] + 1 ELSE t[i]]
AllPositive(t) == \A i \in DOMAIN t : t[i] >= 1

\* The perform actions take a node whose output cell has not been written.
\* op.perform(node, (img, kern), out_): kernels of MaxGroups filters; an
\* unshared kernel has the regions of the output, or a single region
Perform_AbstractConv ==
  /\ call = NoCall
  /\ op.kind = "Forward"
  /\ out = None
  /\ \E B \in BatchSizes, C \in 2..MaxChan, cg \in 1..2, x \in {MaxImage - 1, MaxImage},
        k \in {1, MaxKernel - 1}, match \in BOOLEAN :
       /\ op.unshared \/ match
       /\ \E regions \in {IF match
                          THEN ForwardSpatial(op, ImageSpatial(op.convdim, x),
                                              KernelSpatial(op.convdim, k))
                          ELSE Ones(op.convdim)} :
            LET cd == op.convdim
                img == <<B, C>> \o ImageSpatial(cd, x)
                K == KernelSpatial(cd, k)
                kern == IF op.unshared THEN <<MaxGroups>> \o regions \o <<cg>> \o K
                        ELSE <<MaxGroups, cg>> \o K
            IN /\ AllPositive(regions)
               /\ \E r \in {AbstractConv_perform(op, img, kern)} :
                    /\ call' = [fn |-> "AbstractConv.perform", self |-> op,
                                inputs |-> [img |-> img, kern |-> kern], result |-> r]
                    /\ out' = IF IsRaise(r) THEN out ELSE r
  /\ UNCHANGED <<op, origin>>

\* op.perform(node, (img, topgrad, shape), out_): topgrad as a forward pass
\* over the image with a kernel of spatial size K gives it, or one larger on
\* the first axis; shape is K, or one larger on the second axis
Perform_AbstractConv_gradWeights ==
  /\ call = NoCall
  /\ op.kind = "GradWeights"
  /\ out = None
  /\ \E B \in {1}, C \in 2..MaxChan, x \in {MaxImage - 1, MaxImage},
        k \in {1, MaxKernel - 1}, dt \in BOOLEAN, ds \in BOOLEAN :
       \E t0 \in {ForwardSpatial(op, ImageSpatial(op.convdim, x),
                                 KernelSpatial(op.convdim, k))} :
         LET cd == op.convdim
             img == <<B, C>> \o ImageSpatial(cd, x)
             K == KernelSpatial(cd, k)
             topgrad == <<B, MaxGroups>> \o (IF dt THEN Plus1(t0, 1) ELSE t0)
             shape == IF ds THEN Plus1(K, 2) ELSE K
         IN /\ AllPositive(t0)
            /\ \E r \in {AbstractConv_gradWeights_perform(op, img, topgrad, shape)} :
                 /\ call' = [fn |-> "AbstractConv_gradWeights.perform", self |-> op,
                             inputs |-> [img |-> img, topgrad |-> topgrad,
                                         shape |-> shape],
                             result |-> r]
                 /\ out' = IF IsRaise(r) THEN out ELSE r
  /\ UNCHANGED <<op, origin>>

\* op.perform(node, (kern, topgrad, shape), out_): topgrad as a forward pass
\* over an image of spatial size X gives it, or one larger on the first axis;
\* shape is X, or one larger on the first axis
Perform_AbstractConv_gradInputs ==
  /\ call = NoCall
  /\ op.kind = "GradInputs"
  /\ out = None
  /\ \E B \in {1}, cg \in 1..2, x \in {MaxImage - 1, MaxImage},
        k \in {1, MaxKernel - 1}, dt \in BOOLEAN, ds \in BOOLEAN, match \in BOOLEAN :
       /\ op.unshared \/ match
       /\ \E t0 \in {ForwardSpatial(op, ImageSpatial(op.convdim, x),
                                    KernelSpatial(op.convdim, k))} :
            LET cd == op.convdim
                X == ImageSpatial(cd, x)
                K == KernelSpatial(cd, k)
                t == IF dt THEN Plus1(t0, 1) ELSE t0
                topgrad == <<B, MaxGroups>> \o t
                regions == IF match THEN t ELSE Ones(cd)
                kern == IF op.unshared THEN <<MaxGroups>> \o regions \o <<cg>> \o K
                        ELSE <<MaxGroups, cg>> \o K
                shape == IF ds THEN Plus1(X, 1) ELSE X
            IN /\ AllPositive(t0)
               /\ \E r \in {AbstractConv_gradInputs_perform(op, kern, topgrad, shape)} :
                    /\ call' = [fn |-> "AbstractConv_gradInputs.perform", self |-> op,
                                inputs |-> [kern |-> kern, topgrad |-> topgrad,
                                            shape |-> shape],
                                result |-> r]
                    /\ out' = IF IsRaise(r) THEN out ELSE r
  /\ UNCHANGED <<op, origin>>

NextPerform ==
  \/ Construct(PerformCtorArgs)
  \/ Perform_AbstractConv
  \/ Perform_AbstractConv_gradWeights
  \/ Perform_AbstractConv_gradInputs
  \/ Return

SpecPerform == Init /\ [][NextPerform]_vars

Agrees(static, shape) ==
  \A i \in DOMAIN static : static[i] = None \/ static[i] = IntV(shape[i])

\* C2: whenever AbstractConv.perform succeeds on an image and a kernel whose
\* shapes agree with the known entries of imshp and kshp, the shape of the
\* array it stores is the shape infer_shape predicts through
\* get_conv_output_shape, and its first two dimensions are the batch size
\* and kernel.shape[0].
C2_ForwardShapeAgreement ==
  (/\ call.fn = "AbstractConv.perform"
   /\ ~IsRaise(call.result)
   /\ Agrees(call.self.imshp, call.inputs.img)
   /\ Agrees(call.self.kshp, call.inputs.kern))
  => /\ AbstractConv_infer_shape(call.self, Ints(call.inputs.img), Ints(call.inputs.kern))
          = TupleV(Ints(call.result.shape))
     /\ call.result.shape[1] = call.inputs.img[1]
     /\ call.result.shape[2] = call.inputs.kern[1]
     /\ out = call.result

\* a grouped unshared forward pass with a stride, a dilation, an asymmetric
\* pad and partly known static shapes has succeeded
C2_Witness ==
  /\ call.fn = "AbstractConv.perform"
  /\ ~IsRaise(call.result)
  /\ Agrees(call.self.imshp, call.inputs.img)
  /\ call.self.imshp[3] # None
  /\ call.self.kshp[1] # None
  /\ call.self.unshared
  /\ call.self.num_groups = MaxGroups
  /\ call.self.subsample[1] = MaxStride
  /\ call.self.filter_dilation[2] = MaxDilation
  /\ call.self.border_mode = TupleV(<<IntV(0), PairV(1, MaxPad)>>)
  /\ call.inputs.img[1] # call.inputs.kern[1]

\* C3 as stated: whenever the perform of a gradient operator succeeds, the
\* shape infer_shape returns (static entries when known, the `shape` input
\* otherwise) is the shape of the array perform stores.
C3_Original ==
  /\ (call.fn = "AbstractConv_gradInputs.perform" /\ ~IsRaise(call.result))
       => AbstractConv_gradInputs_infer_shape(call.self, Ints(call.inputs.kern),
              Ints(call.inputs.topgrad), Ints(call.inputs.shape))
            = TupleV(Ints(call.result.shape))
  /\ (call.fn = "AbstractConv_gradWeights.perform" /\ ~IsRaise(call.result))
       => AbstractConv_gradWeights_infer_shape(call.self, Ints(call.inputs.img),
              Ints(call.inputs.topgrad), Ints(call.inputs.shape))
            = TupleV(Ints(call.result.shape))

\* the forward output shape of the candidate image shape of a gradInputs call
\* (static imshp entries when known, otherwise topgrad's batch size, the
\* kernel's channel count and the `shape` input)
CandidateForwardShape(self, inputs) ==
  get_conv_output_shape(
    MergeStatic(self.imshp,
                Ints(<<inputs.topgrad[1], inputs.kern[Len(inputs.kern) - self.convdim]>>
                       \o inputs.shape)),
    Ints(inputs.kern), self.border_mode, Ints(self.subsample), Ints(self.filter_dilation))

\* C5: a call of AbstractConv_gradInputs.perform raises the ValueError of
\* the shape check and leaves the output cell as it was whenever the forward
\* output shape of the candidate image shape differs from the shape of
\* topgrad, and does not raise it when the two are equal.
C5_ShapeCheckBeforeOutput ==
  [][(call.fn = "none" /\ call'.fn = "AbstractConv_gradInputs.perform")
       => IF CandidateForwardShape(call'.self, call'.inputs).v # Ints(call'.inputs.topgrad)
          THEN /\ call'.result = InvalidInputShape
               /\ call'.result.exc = "ValueError"
               /\ out' = out
          ELSE call'.result # InvalidInputShape]_vars

\* the check has rejected a topgrad that the `shape` input alone would have
\* accepted but the static imshp does not, and the cell is still unwritten
C5_Witness ==
  /\ call.fn = "AbstractConv_gradInputs.perform"
  /\ call.result = InvalidInputShape
  /\ out = None
  /\ call.self.imshp[3] # None
  /\ get_conv_output_shape(
       gradInputs_imshp_from_shape_input(call.self, call.inputs.kern, call.inputs.topgrad,
                                         call.inputs.shape),
       Ints(call.inputs.kern), call.self.border_mode, Ints(call.self.subsample),
       Ints(call.self.filter_dilation)).v = Ints(call.inputs.topgrad)

(***************************************************************************)
(* The channel structure of BaseAbstractConv.conv (2325-2387): which       *)
(* planes of img and kern are convolved into which plane of out.  Over its *)
(* two leading axes an array is [shape |-> <<n0, n1>>, at |-> ...] with    *)
(* at[i][j] the plane at index (i, j), 0-based; a plane of out is the set  *)
(* of the terms <<routine, image plane, kernel plane>> summed into it.     *)
(***************************************************************************)
Planes(name, n0, n1) ==
  [shape |-> <<n0, n1>>,
   at |-> [i \in 0..(n0 - 1) |-> [j \in 0..(n1 - 1) |-> <<name, i, j>>]]]
\* a[:, lo:hi]
SliceAxis1(a, lo, hi) ==
  [shape |-> <<a.shape[1], hi - lo>>,
   at |-> [i \in 0..(a.shape[1] - 1) |-> [j \in 0..(hi - lo - 1) |-> a.at[i][lo + j]]]]
\* a[lo:hi]
SliceAxis0(a, lo, hi) ==
  [shape |-> <<hi - lo, a.shape[2]>>, at |-> [i \in 0..(hi - lo - 1) |-> a.at[lo + i]]]

\* the routine called in the innermost loop
conv_routine(self, unshared) ==
  IF self.convdim = 2 THEN (IF unshared THEN "unshared2d" ELSE "_convolve2d") ELSE "convolve"

\* every group reads the image channels of the first group
conv_terms_no_channel_offset(self, img, kern, num_groups, unshared) ==
  LET input_channel_offset == img.shape[2] \div self.num_groups
      output_channel_offset == kern.shape[1] \div self.num_groups
      loop == (0..(self.num_groups - 1)) \X (0..(output_channel_offset - 1))
                \X (0..(input_channel_offset - 1))
  IN IF img.shape[2] % self.num_groups # 0 THEN Raise("ValueError")
     ELSE IF kern.shape[1] % self.num_groups # 0 THEN Raise("ValueError")
     ELSE IF img.shape[2] \div num_groups # kern.shape[2] THEN Raise("ValueError")
     ELSE IF self.convdim = 3 /\ unshared THEN Raise("NotImplementedError")
     ELSE [t |-> "ndarray", shape |-> <<img.shape[1], kern.shape[1]>>,
           at |-> [b \in 0..(img.shape[1] - 1) |-> [oc \in 0..(kern.shape[1] - 1) |->
                    {<<conv_routine(self, unshared), img.at[b][x[3]],
                       kern.at[x[1] * output_channel_offset + x[2]][x[3]]>> :
                       x \in {y \in loop : y[1] * output_channel_offset + y[2] = oc}}]]]

\* lines 2325-2387, loop variables <<g, n, im0>>
conv_terms(self, img, kern, num_groups, unshared) ==
  LET input_channel_offset == img.shape[2] \div self.num_groups
      output_channel_offset == kern.shape[1] \div self.num_groups
      loop == (0..(self.num_groups - 1)) \X (0..(output_channel_offset - 1))
                \X (0..(input_channel_offset - 1))
  IN IF img.shape[2] % self.num_groups # 0 THEN Raise("ValueError")
     ELSE IF kern.shape[1] % self.num_groups # 0 THEN Raise("ValueError")
     ELSE IF img.shape[2] \div num_groups # kern.shape[2] THEN Raise("ValueError")
     ELSE IF self.convdim = 3 /\ unshared THEN Raise("NotImplementedError")
     ELSE [t |-> "ndarray", shape |-> <<img.shape[1], kern.shape[1]>>,
           at |-> [b \in 0..(img.shape[1] - 1) |-> [oc \in 0..(kern.shape[1] - 1) |->
                    {<<conv_routine(self, unshared), img.at[b][x[1] * input_channel_offset + x[3]],
                       kern.at[x[1] * output_channel_offset + x[2]][x[3]]>> :
                       x \in {y \in loop : y[1] * output_channel_offset + y[2] = oc}}]]]

ConvCtorArgs ==
  {[kind |-> "Forward", convdim |-> cu[1], imshp |-> None, kshp |-> None,
    border_mode |-> StrV("valid"), subsample |-> None, filter_flip |-> flip,
    filter_dilation |-> None, num_groups |-> G, unshared |-> cu[2]] :
     cu \in {<<2, FALSE>>, <<2, TRUE>>, <<3, FALSE>>}, flip \in BOOLEAN, G \in 1..MaxGroups}

\* self.conv(img, kern, mode="valid", dilation=self.filter_dilation,
\* num_groups=self.num_groups, unshared=self.unshared), as perform calls it
Call_conv ==
  /\ call = NoCall
  /\ op.kind = "Forward"
  /\ \E B \in BatchSizes, C \in 1..(2 * MaxGroups), N \in 1..(3 * MaxGroups),
        Kc \in 1..MaxGroups :
       LET img == Planes("img", B, C)
           kern == Planes("kern", N, Kc)
       IN call' = [fn |-> "conv", self |-> op, inputs |-> [img |-> img, kern |-> kern],
                   result |-> conv_terms(op, img, kern, op.num_groups, op.unshared)]
  /\ UNCHANGED <<op, origin, out>>

NextConv == Construct(ConvCtorArgs) \/ Call_conv \/ Return

SpecConv == Init /\ [][NextConv]_vars

\* the concatenation along the channel axis of G convolutions with
\* num_groups = 1, the g-th on image channels [g*C/G, (g+1)*C/G) and kernel
\* rows [g*N/G, (g+1)*N/G)
GroupwiseConv(self, img, kern, G) ==
  LET ic == img.shape[2] \div G
      oc == kern.shape[1] \div G
      self1 == [self EXCEPT !.num_groups = 1]
      part == [g \in 0..(G - 1) |->
                 conv_terms(self1, SliceAxis1(img, g * ic, (g + 1) * ic),
                            SliceAxis0(kern, g * oc, (g + 1) * oc), 1, self.unshared)]
  IN [t |-> "ndarray", shape |-> <<img.shape[1], kern.shape[1]>>,
      at |-> [b \in 0..(img.shape[1] - 1) |-> [n \in 0..(kern.shape[1] - 1) |->
                part[n \div oc].at[b][n % oc]]]]

\* C10: with C image channels and N kernel rows both divisible by
\* num_groups = G (and a kernel of C/G channels), conv returns the
\* concatenation along the channel axis of the G independent num_groups = 1
\* convolutions of the channel slices, and every term summed into an output
\* channel of group g is a plane of an image channel of group g convolved
\* with a plane of a kernel row of group g.
C10_GroupPartition ==
  (/\ call.fn = "conv"
   /\ call.inputs.img.shape[2] % call.self.num_groups = 0
   /\ call.inputs.kern.shape[1] % call.self.num_groups = 0
   /\ call.inputs.kern.shape[2] = call.inputs.img.shape[2] \div call.self.num_groups)
  => LET G == call.self.num_groups
         ic == call.inputs.img.shape[2] \div G
         oc == call.inputs.kern.shape[1] \div G
     IN /\ ~IsRaise(call.result)
        /\ call.result = GroupwiseConv(call.self, call.inputs.img, call.inputs.kern, G)
        /\ \A b \in DOMAIN call.result.at : \A n \in DOMAIN call.result.at[b] :
             /\ Cardinality(call.result.at[b][n]) = ic
             /\ \A term \in call.result.at[b][n] :
                  /\ term[2][2] = b
                  /\ term[2][3] \div ic = n \div oc
                  /\ term[3][2] \div oc = n \div oc

\* a grouped convolution of 2 * MaxGroups image channels with a kernel of
\* 3 * MaxGroups rows of 2 channels has returned
C10_Witness ==
  /\ call.fn = "conv"
  /\ ~IsRaise(call.result)
  /\ call.self.num_groups = MaxGroups
  /\ call.inputs.img.shape = <<2, 2 * MaxGroups>>
  /\ call.inputs.kern.shape = <<3 * MaxGroups, 2>>

(***************************************************************************)
(* Construction with arbitrary arguments: BaseAbstractConv.__init__ called *)
(* directly, with convdim, border_mode, subsample, filter_dilation,        *)
(* num_groups and unshared drawn from acceptable and unacceptable values,  *)
(* and a second operator constructed from the stored properties of the     *)
(* first.                                                                  *)
(***************************************************************************)
BaseConvdims == 1..4

\* acceptable and unacceptable border modes: strings, a float, integers,
\* tuples of two integers, of symmetric pairs, of an asymmetric pair, of a
\* pair with a float, of a triple, and tuples of length 3 with and without
\* pairs
BaseBorderModes ==
  NamedModes \cup {StrV("same"), FloatV(1, 2)}
    \cup {IntV(p) : p \in -1..MaxPad}
    \cup {TupleV(<<IntV(a), IntV(b)>>) : a, b \in -1..MaxPad}
    \cup {TupleV(<<PairV(a, a), PairV(a, a)>>) : a \in 0..MaxPad}
    \cup {TupleV(<<PairV(a, b), IntV(0)>>) : a \in -1..1, b \in {0, MaxPad}}
    \cup {TupleV(<<TupleV(<<FloatV(1, 2), IntV(1)>>), IntV(0)>>),
          TupleV(<<TupleV(<<IntV(1), IntV(1), IntV(1)>>), IntV(0)>>)}
    \cup {TupleV(<<IntV(a), IntV(a), IntV(1)>>) : a \in 0..1}
    \cup {TupleV(<<IntV(0), PairV(1, b), IntV(0)>>) : b \in 1..2}

BaseTuples(v) == {None, TupleV(<<v, 1>>), TupleV(<<v, 1, 1>>)}

\* no static shapes, or an image of MaxChan channels and a kernel of MaxChan
\* filters
BaseStatic(cd, unshared) ==
  {<<None, None>>,
   <<TupleV(<<None, IntV(MaxChan)>> \o [a \in 1..cd |-> None]),
     TupleV(<<IntV(MaxChan)>>
              \o [a \in 1..(IF unshared THEN 2 * cd + 1 ELSE cd + 1) |-> None])>>}

\* op = BaseAbstractConv(convdim, imshp, ...), constructed through the
\* forward class: a raising constructor leaves no operator
New_BaseAbstractConv ==
  /\ call = NoCall
  /\ op = NoOp
  /\ \E cu \in BaseConvdims \X BOOLEAN, bm \in BaseBorderModes,
        ss \in BaseTuples(MaxStride), fd \in BaseTuples(MaxDilation), G \in 0..MaxGroups :
       \E st \in BaseStatic(cu[1], cu[2]) :
         LET a == [kind |-> "Forward", convdim |-> cu[1], imshp |-> st[1], kshp |-> st[2],
                   border_mode |-> bm, subsample |-> ss, filter_flip |-> TRUE,
                   filter_dilation |-> fd, num_groups |-> G, unshared |-> cu[2]]
         IN \E r \in {BaseAbstractConv_init(a.kind, a.convdim, a.imshp, a.kshp,
                                            a.border_mode, a.subsample, a.filter_flip,
                                            a.filter_dilation, a.num_groups, a.unshared)} :
              /\ call' = [fn |-> "BaseAbstractConv.__init__", args |-> a, first |-> NoOp,
                          result |-> IF IsRaise(r) THEN r ELSE None]
              /\ op' = IF IsRaise(r) THEN NoOp ELSE r
              /\ origin' = IF IsRaise(r) THEN NoOp ELSE r
  /\ UNCHANGED out

\* op = BaseAbstractConv(op.convdim, op.imshp, ..., op.border_mode, ...): a
\* second operator from the stored properties of the first
Reconstruct ==
  /\ call = NoCall
  /\ op # NoOp
  /\ LET a == [kind |-> op.kind, convdim |-> op.convdim, imshp |-> TupleV(op.imshp),
               kshp |-> TupleV(op.kshp), border_mode |-> op.border_mode,
               subsample |-> TupleV(op.subsample), filter_flip |-> op.filter_flip,
               filter_dilation |-> TupleV(op.filter_dilation),
               num_groups |-> op.num_groups, unshared |-> op.unshared]
     IN \E r \in {BaseAbstractConv_init(a.kind, a.convdim, a.imshp, a.kshp, a.border_mode,
                                        a.subsample, a.filter_flip, a.filter_dilation,
                                        a.num_groups, a.unshared)} :
          /\ call' = [fn |-> "BaseAbstractConv.__init__", args |-> a, first |-> op,
                      result |-> IF IsRaise(r) THEN r ELSE None]
          /\ op' = IF IsRaise(r) THEN op ELSE r
  /\ UNCHANGED <<origin, out>>

NextCtor == New_BaseAbstractConv \/ Reconstruct \/ Return

SpecCtor == Init /\ [][NextCtor]_vars

(***************************************************************************)
(* Properties of construction (under SpecCtor).                            *)
(***************************************************************************)
\* the tuple is given and its length is not convdim
WrongLength(t, convdim) == t.t = "tuple" /\ Len(t.v) # convdim

\* C11: construction raises, and produces no operator, when convdim is not
\* 2 or 3, when a border_mode tuple, subsample or filter_dilation has a
\* length other than convdim, when num_groups < 1, when border_mode is not
\* "valid", "full", "half", an integer or a tuple, when unshared is given with
\* convdim 3, and when a border_mode of convdim 3 holds a pair.
C11_ConstructionFails ==
  call.fn = "BaseAbstractConv.__init__" =>
    LET a == call.args
    IN (\/ a.convdim \notin {2, 3}
        \/ WrongLength(a.border_mode, a.convdim)
        \/ WrongLength(a.subsample, a.convdim)
        \/ WrongLength(a.filter_dilation, a.convdim)
        \/ a.num_groups < 1
        \/ a.border_mode.t \notin {"int", "tuple"} /\ a.border_mode \notin NamedModes
        \/ a.unshared /\ a.convdim = 3
        \/ /\ a.convdim = 3
           /\ a.border_mode.t = "tuple"
           /\ \E i \in DOMAIN a.border_mode.v : a.border_mode.v[i].t = "tuple")
       => IsRaise(call.result) /\ op = call.first

\* a 2D unshared construction whose only fault is num_groups = 0 has raised
\* ValueError, and no operator exists
C11_Witness ==
  /\ call.fn = "BaseAbstractConv.__init__"
  /\ call.args.convdim = 2
  /\ call.args.border_mode = TupleV(<<PairV(1, MaxPad), IntV(0)>>)
  /\ call.args.subsample = TupleV(<<MaxStride, 1>>)
  /\ call.args.filter_dilation = None
  /\ call.args.unshared
  /\ call.args.num_groups = 0
  /\ call.result = Raise("ValueError")
  /\ op = NoOp

\* C12 as stated: construction raises when the statically known number of
\* input channels imshp[1] or of kernel rows kshp[0] is not divisible by
\* num_groups.
C12_Original ==
  (/\ call.fn = "BaseAbstractConv.__init__"
   /\ call.args.num_groups >= 1
   /\ \/ /\ call.args.imshp.t = "tuple"
         /\ call.args.imshp.v[2].t = "int"
         /\ call.args.imshp.v[2].v % call.args.num_groups # 0
      \/ /\ call.args.kshp.t = "tuple"
         /\ call.args.kshp.v[1].t = "int"
         /\ call.args.kshp.v[1].v % call.args.num_groups # 0)
  => IsRaise(call.result)

\* a border mode with negative padding: a negative integer, or a tuple with
\* a negative integer or with a pair of integers one of which is negative
NegativePadding(bm) ==
  \/ bm.t = "int" /\ bm.v < 0
  \/ /\ bm.t = "tuple"
     /\ \E i \in DOMAIN bm.v :
          \/ bm.v[i].t = "int" /\ bm.v[i].v < 0
          \/ /\ bm.v[i].t = "tuple"
             /\ Len(bm.v[i].v) = 2
             /\ \A j \in 1..2 : bm.v[i].v[j].t = "int"
             /\ \E j \in 1..2 : bm.v[i].v[j].v < 0

\* the arguments other than border_mode are acceptable for 2D
RestAcceptable2d(a) ==
  /\ a.convdim = 2
  /\ ~WrongLength(a.subsample, 2)
  /\ ~WrongLength(a.filter_dilation, 2)
  /\ a.num_groups >= 1

\* C13: construction with negative padding raises; construction of a 2D
\* operator with a tuple (a, b) of non-negative integers succeeds, and
\* border_mode_to_pad of the stored border_mode is ((a, a), (b, b)).
C13_NegativePaddingRejected ==
  call.fn = "BaseAbstractConv.__init__" =>
    LET bm == call.args.border_mode
    IN /\ NegativePadding(bm) => IsRaise(call.result)
       /\ (/\ RestAcceptable2d(call.args)
           /\ bm.t = "tuple"
           /\ Len(bm.v) = 2
           /\ \A i \in 1..2 : bm.v[i].t = "int" /\ bm.v[i].v >= 0)
          => /\ ~IsRaise(call.result)
             /\ \A k \in 1..MaxKernel :
                  border_mode_to_pad(op.border_mode, 2, <<k, k>>)
                    = TupleV(<<TupleV(<<bm.v[1].v, bm.v[1].v>>),
                               TupleV(<<bm.v[2].v, bm.v[2].v>>)>>)

\* a 2D operator has been constructed with border_mode (MaxPad, MaxPad) and
\* a static kernel shape
C13_Witness ==
  /\ call.fn = "BaseAbstractConv.__init__"
  /\ call.first = NoOp
  /\ call.args.border_mode = TupleV(<<IntV(MaxPad), IntV(MaxPad)>>)
  /\ call.args.kshp # None
  /\ call.result = None
  /\ op.convdim = 2
  /\ op.border_mode = TupleV(<<IntV(MaxPad), IntV(MaxPad)>>)

\* the three spellings of a symmetric padding a on both axes
Spellings(a) == {IntV(a), TupleV(<<IntV(a), IntV(a)>>), TupleV(<<PairV(a, a), PairV(a, a)>>)}
IsSymmetricPair(m) == m.t = "tuple" /\ Len(m.v) = 2 /\ m.v[1] = m.v[2]

\* C18: a second operator constructed from the stored border_mode of a
\* first one is constructed and stores the same border_mode; in 2D a
\* symmetric pair (a, a) in a stored tuple is the scalar a, and the border
\* modes a, (a, a) and ((a, a), (a, a)) store one value (the tuple (a, a),
\* "valid" when a is 0) and give the pads ((a, a), (a, a)).
C18_NormalizationIdempotent ==
  call.fn = "BaseAbstractConv.__init__" =>
    /\ call.first # NoOp =>
         /\ call.result = None
         /\ op.border_mode = call.first.border_mode
    /\ (call.result = None /\ op.convdim = 2) =>
         LET bm == call.args.border_mode
         IN /\ (bm.t = "tuple" /\ op.border_mode.t = "tuple") =>
                 \A i \in 1..2 :
                   op.border_mode.v[i] =
                     IF IsSymmetricPair(bm.v[i]) THEN bm.v[i].v[1] ELSE bm.v[i]
            /\ \A a \in 0..MaxPad :
                 bm \in Spellings(a) =>
                   /\ op.border_mode =
                        IF a = 0 THEN StrV("valid") ELSE TupleV(<<IntV(a), IntV(a)>>)
                   /\ \A k \in 1..MaxKernel :
                        border_mode_to_pad(op.border_mode, 2, <<k, k>>)
                          = TupleV(<<TupleV(<<a, a>>), TupleV(<<a, a>>)>>)

\* a second operator has been constructed from an operator that stores an
\* asymmetric pair, the first one having been given symmetric pairs
C18_Witness ==
  \/ /\ call.fn = "BaseAbstractConv.__init__"
     /\ call.first # NoOp
     /\ call.first.border_mode = TupleV(<<PairV(1, MaxPad), IntV(0)>>)
     /\ op.border_mode = TupleV(<<PairV(1, MaxPad), IntV(0)>>)
  \/ /\ call.fn = "BaseAbstractConv.__init__"
     /\ call.args.border_mode = TupleV(<<PairV(MaxPad, MaxPad), PairV(MaxPad, MaxPad)>>)
     /\ call.result = None
     /\ op.border_mode = TupleV(<<IntV(MaxPad), IntV(MaxPad)>>)

(***************************************************************************)
(* border_mode_to_pad called directly, with acceptable and unacceptable    *)
(* modes.                                                                  *)
(***************************************************************************)
PadConvdims == 1..3

\* entries of a border_mode tuple: integers, pairs, a pair with a float, a
\* triple and a float
PadEntries ==
  {IntV(-1), IntV(0), IntV(MaxPad)}
    \cup {PairV(0, 0), PairV(1, MaxPad), PairV(-1, 1)}
    \cup {TupleV(<<FloatV(1, 2), IntV(1)>>), TupleV(<<IntV(1), IntV(1), IntV(1)>>),
          FloatV(1, 2)}

PadModes ==
  NamedModes \cup {StrV("same"), FloatV(1, 2)} \cup {IntV(p) : p \in -1..MaxPad}
    \cup UNION {{TupleV(t) : t \in [1..n -> PadEntries]} : n \in PadConvdims}

Call_border_mode_to_pad ==
  /\ call = NoCall
  /\ \E mode \in PadModes, convdim \in PadConvdims, k \in 1..MaxKernel :
       LET kshp == KernelSpatial(convdim, k)
       IN call' = [fn |-> "border_mode_to_pad",
                   args |-> [mode |-> mode, convdim |-> convdim, kshp |-> kshp],
                   result |-> border_mode_to_pad(mode, convdim, kshp)]
  /\ UNCHANGED <<op, origin, out>>

NextPad == Call_border_mode_to_pad \/ Return

SpecPad == Init /\ [][NextPad]_vars

(***************************************************************************)
(* Properties of border_mode_to_pad (under SpecPad).                       *)
(***************************************************************************)
IsNonNegInt(m) == m.t = "int" /\ m.v >= 0
IsNonNegPair(m) ==
  /\ m.t = "tuple"
  /\ Len(m.v) = 2
  /\ \A j \in 1..2 : m.v[j].t = "int" /\ m.v[j].v >= 0
\* a tuple of the given length
Pads(n, f(_)) == TupleV([i \in 1..n |-> TupleV(f(i))])

\* C15: border_mode_to_pad returns convdim pairs: (0, 0) for "valid",
\* (kshp[i] - 1, kshp[i] - 1) for "full", (kshp[i] // 2, kshp[i] // 2) for
\* "half", and for a tuple of length convdim (m, m) for a non-negative
\* integer entry m and (l, r) for a pair entry (l, r) of non-negative
\* integers.
C15_PadTable ==
  call.fn = "border_mode_to_pad" =>
    LET mode == call.args.mode
        n == call.args.convdim
        kshp == call.args.kshp
        zero(i) == <<0, 0>>
        full(i) == <<kshp[i] - 1, kshp[i] - 1>>
        half(i) == <<kshp[i] \div 2, kshp[i] \div 2>>
        given(i) == IF mode.v[i].t = "int" THEN <<mode.v[i].v, mode.v[i].v>>
                    ELSE <<mode.v[i].v[1].v, mode.v[i].v[2].v>>
    IN /\ mode = StrV("valid") => call.result = Pads(n, zero)
       /\ mode = StrV("full") => call.result = Pads(n, full)
       /\ mode = StrV("half") => call.result = Pads(n, half)
       /\ (/\ mode.t = "tuple"
           /\ Len(mode.v) = n
           /\ \A i \in 1..n : IsNonNegInt(mode.v[i]) \/ IsNonNegPair(mode.v[i]))
          => call.result = Pads(n, given)

\* a 2D tuple of an integer and an asymmetric pair has given its pads
C15_Witness ==
  /\ call.fn = "border_mode_to_pad"
  /\ call.args.convdim = 2
  /\ call.args.mode = TupleV(<<IntV(MaxPad), PairV(1, MaxPad)>>)
  /\ call.result = TupleV(<<TupleV(<<MaxPad, MaxPad>>), TupleV(<<1, MaxPad>>)>>)

\* C16 as stated: border_mode_to_pad maps a non-negative integer border
\* mode v to (v, v) on every one of the convdim axes.
C16_Original ==
  (call.fn = "border_mode_to_pad" /\ IsNonNegInt(call.args.mode))
  => LET pair(i) == <<call.args.mode.v, call.args.mode.v>>
     IN call.result = Pads(call.args.convdim, pair)

\* C17 as stated: border_mode_to_pad raises for a tuple whose length is not
\* convdim, for a tuple entry that is a negative integer or a pair with a
\* negative or non-integer component, for a pair entry when convdim is not
\* 2, and for a non-tuple other than "valid", "full" and "half".
C17_Original ==
  call.fn = "border_mode_to_pad" =>
    LET mode == call.args.mode
        n == call.args.convdim
        IsPair(m) == m.t = "tuple" /\ Len(m.v) = 2
    IN (\/ mode.t = "tuple" /\ Len(mode.v) # n
        \/ /\ mode.t = "tuple"
           /\ \E i \in DOMAIN mode.v :
                \/ mode.v[i].t = "int" /\ mode.v[i].v < 0
                \/ IsPair(mode.v[i]) /\ ~IsNonNegPair(mode.v[i])
                \/ IsPair(mode.v[i]) /\ n # 2
        \/ mode.t # "tuple" /\ mode \notin NamedModes)
       => IsRaise(call.result)

(***************************************************************************)
(* check_conv_gradinputs_shape (abstract_conv.py 433-511).                 *)
(* Shape entries are None, IntV or SymV (a symbolic scalar that is not a   *)
(* constant); filter_dilation is None or TupleV of a sequence of IntV.     *)
(* The result is BoolV(b), or the exception get_conv_output_shape raises.  *)
(***************************************************************************)
SymV(name) == [t |-> "sym", v |-> name]
BoolV(b) == [t |-> "bool", v |-> b]

\* a check_dim that takes an unknown size as a mismatch
check_dim_none_mismatch(given, computed) ==
  IF given = None \/ computed = None THEN FALSE
  ELSE IF given.t = "sym" THEN TRUE
  ELSE IF computed.t = "sym" THEN TRUE
  ELSE given.v = computed.v

\* lines 497-506: get_scalar_constant_value raises NotScalarConstantError
\* for a symbolic scalar
check_dim(given, computed) ==
  IF given = None \/ computed = None THEN TRUE
  ELSE IF given.t = "sym" THEN TRUE
  ELSE IF computed.t = "sym" THEN TRUE
  ELSE given.v = computed.v

check_conv_gradinputs_shape(image_shape, kernel_shape, output_shape, border_mode, subsample, filter_dilation) ==
  IF Len(image_shape) # Len(kernel_shape) \/ Len(image_shape) # Len(output_shape)
    THEN BoolV(FALSE)
  ELSE IF Len(image_shape) - 2 # Len(subsample) THEN BoolV(FALSE)
  ELSE IF filter_dilation.t # "none" /\ Len(image_shape) - 2 # Len(filter_dilation.v)
    THEN BoolV(FALSE)
  ELSE Only({
    IF IsRaise(computed_output_shape) THEN computed_output_shape
    ELSE BoolV(\A i \in 1..Len(output_shape) :
                 check_dim(output_shape[i], computed_output_shape.v[i])) :
    computed_output_shape \in
      {get_conv_output_shape(image_shape, kernel_shape, border_mode, subsample,
                             IF filter_dilation.t = "none" THEN None
                             ELSE filter_dilation.v)}})

\* the claimed output shape: the forward shape with the entry at position p
\* (0: none) replaced by another size, by None or by a symbolic scalar
Alter(e, how) ==
  IF how = "other" THEN (IF e.t = "int" THEN IntV(e.v + 1) ELSE IntV(1))
  ELSE IF how = "none" THEN None
  ELSE SymV("s")
Claimed(fwd, p, how) == [i \in DOMAIN fwd |-> IF i = p THEN Alter(fwd[i], how) ELSE fwd[i]]
DropLast(t) == SubSeq(t, 1, Len(t) - 1)
CheckFaults == {"no", "kernel", "output", "subsample", "filter_dilation"}

\* image and kernel shapes with a constant or symbolic batch size and number
\* of filters and a known or unknown first spatial size; one of the tuples
\* may have a wrong length
Call_check_conv_gradinputs_shape ==
  /\ call = NoCall
  /\ \E cd \in Convdims :
     \E b \in {IntV(1), SymV("b")}, n \in {IntV(MaxGroups), SymV("n")},
        unknown \in BOOLEAN, k \in {1, MaxKernel - 1}, s \in {1, MaxStride},
        bm \in {StrV("valid"), StrV("half"), TupleV([a \in 1..cd |-> PairV(1, MaxPad)])},
        dilated \in BOOLEAN, fault \in CheckFaults, p \in 0..(cd + 2),
        how \in {"other", "none", "sym"} :
       LET X == Ints(ImageSpatial(cd, MaxImage))
           image_shape == <<b, IntV(MaxChan)>>
                            \o [a \in 1..cd |-> IF unknown /\ a = 1 THEN None ELSE X[a]]
           kernel_shape == <<n, IntV(MaxChan)>> \o Ints(KernelSpatial(cd, k))
           subsample == Ints(StrideTuple(cd, s))
           fd == Ints(DilationTuple(cd, MaxDilation))
       IN /\ fault = "filter_dilation" => dilated
          /\ fault # "no" => (p = 0 /\ how = "other")
          /\ p = 0 => how = "other"
          /\ \E fwd \in {get_conv_output_shape(image_shape, kernel_shape, bm, subsample,
                                               IF dilated THEN fd ELSE None)} :
               LET a == [image_shape |-> image_shape,
                         kernel_shape |-> IF fault = "kernel" THEN DropLast(kernel_shape)
                                          ELSE kernel_shape,
                         output_shape |-> IF fault = "output" THEN DropLast(fwd.v)
                                          ELSE Claimed(fwd.v, p, how),
                         border_mode |-> bm,
                         subsample |-> IF fault = "subsample" THEN subsample \o <<IntV(1)>>
                                       ELSE subsample,
                         filter_dilation |->
                           IF ~dilated THEN None
                           ELSE IF fault = "filter_dilation" THEN TupleV(fd \o <<IntV(1)>>)
                           ELSE TupleV(fd)]
               IN call' = [fn |-> "check_conv_gradinputs_shape", args |-> a,
                           result |-> check_conv_gradinputs_shape(a.image_shape,
                                        a.kernel_shape, a.output_shape, a.border_mode,
                                        a.subsample, a.filter_dilation)]
  /\ UNCHANGED <<op, origin, out>>

NextCheck == Call_check_conv_gradinputs_shape \/ Return

SpecCheck == Init /\ [][NextCheck]_vars

\* C19: check_conv_gradinputs_shape returns False when image, kernel and
\* output shape do not have one length, or subsample or a given
\* filter_dilation does not have that length minus 2; otherwise it returns
\* True exactly when the claimed and the recomputed forward size are equal in
\* every dimension where both are known constants.
C19_CheckShape ==
  call.fn = "check_conv_gradinputs_shape" =>
    LET a == call.args
        n == Len(a.image_shape)
    IN IF \/ Len(a.kernel_shape) # n
          \/ Len(a.output_shape) # n
          \/ Len(a.subsample) # n - 2
          \/ a.filter_dilation.t = "tuple" /\ Len(a.filter_dilation.v) # n - 2
       THEN call.result = BoolV(FALSE)
       ELSE LET computed == get_conv_output_shape(a.image_shape, a.kernel_shape,
                              a.border_mode, a.subsample,
                              IF a.filter_dilation.t = "none" THEN None
                              ELSE a.filter_dilation.v).v
            IN call.result =
                 BoolV(\A i \in 1..n :
                         (a.output_shape[i].t = "int" /\ computed[i].t = "int")
                           => a.output_shape[i].v = computed[i].v)

\* a check with a symbolic batch size, an unknown image size and one wrong
\* known size has returned False, and one with an unknown claimed size True
C19_Witness ==
  /\ call.fn = "check_conv_gradinputs_shape"
  /\ Len(call.args.kernel_shape) = Len(call.args.image_shape)
  /\ Len(call.args.output_shape) = Len(call.args.image_shape)
  /\ call.args.image_shape[1] = SymV("b")
  /\ call.args.image_shape[3] = None
  /\ call.args.filter_dilation # None
  /\ \/ /\ call.args.output_shape[4].t = "int"
        /\ call.result = BoolV(FALSE)
     \/ /\ call.args.output_shape[4] = None
        /\ call.result = BoolV(TRUE)

(***************************************************************************)
(* causal_conv1d (abstract_conv.py 1639-1742).                             *)
(*   input, filters : the shapes of the arrays given at run time           *)
(*   filter_shape   : TupleV of IntV / None; input_shape: the same or None *)
(*   subsample, filter_dilation : integers                                 *)
(* The result is the operator built and the array its output evaluates to, *)
(* or the exception raised.                                                *)
(***************************************************************************)
\* a left padding that forgets the dilation
causal_left_pad_undilated(filter_dilation, filter_shape) == filter_shape[3].v - 1

\* line 1725: left_pad = filter_dilation * (filter_shape[2] - 1)
causal_left_pad(filter_dilation, filter_shape) == filter_dilation * (filter_shape[3].v - 1)

causal_conv1d(input, filters, filter_shape, input_shape, subsample, filter_flip, filter_dilation, num_groups, unshared) ==
  IF Len(input) # 3 THEN Raise("ValueError")
  ELSE IF Len(filters) # 3 THEN Raise("ValueError")
  ELSE IF input_shape.t # "none" /\ Len(input_shape.v) # 3 THEN Raise("AssertionError")
  ELSE IF Len(filter_shape.v) # 3 THEN Raise("AssertionError")
  ELSE
    LET input1 == input \o <<1>>
        filters1 == filters \o <<1>>
        input_shape1 == IF input_shape.t # "none" THEN TupleV(input_shape.v \o <<IntV(1)>>)
                        ELSE None
        filter_shape1 == filter_shape.v \o <<IntV(1)>>
        left_pad == causal_left_pad(filter_dilation, filter_shape1)
    IN Only({
         IF IsRaise(conv_op) THEN conv_op
         ELSE Only({
           IF IsRaise(output) THEN output
           ELSE IF output.shape[4] < 1 THEN Raise("IndexError")
           ELSE [t |-> "causal", op |-> conv_op, output |-> ndarray(SubSeq(output.shape, 1, 3))] :
           output \in {AbstractConv_perform(conv_op, input1, filters1)}}) :
         conv_op \in {Conv2d_init("Forward", input_shape1, TupleV(filter_shape1),
                                  TupleV(<<PairV(left_pad, 0), IntV(0)>>),
                                  TupleV(<<subsample, 1>>), filter_flip,
                                  TupleV(<<filter_dilation, 1>>), num_groups, unshared)}})

\* inputs of num_groups * cg channels and of every length up to MaxLength,
\* filters of num_groups * cg filters over cg channels; the shapes are given
\* statically or not
Call_causal_conv1d ==
  /\ call = NoCall
  /\ \E B \in BatchSizes, G \in 1..MaxGroups, cg \in 1..2, L \in 1..MaxLength,
        K \in 1..MaxKernel, s \in 1..MaxStride, d \in 1..MaxDilation,
        flip \in BOOLEAN, static \in BOOLEAN :
       LET a == [input |-> <<B, G * cg, L>>,
                 filters |-> <<G * cg, cg, K>>,
                 filter_shape |-> IF static THEN TupleV(Ints(<<G * cg, cg, K>>))
                                  ELSE TupleV(<<None, None, IntV(K)>>),
                 input_shape |-> IF static THEN TupleV(Ints(<<B, G * cg, L>>)) ELSE None,
                 subsample |-> s, filter_flip |-> flip, filter_dilation |-> d,
                 num_groups |-> G, unshared |-> FALSE]
       IN call' = [fn |-> "causal_conv1d", args |-> a,
                   result |-> causal_conv1d(a.input, a.filters, a.filter_shape,
                                            a.input_shape, a.subsample, a.filter_flip,
                                            a.filter_dilation, a.num_groups, a.unshared)]
  /\ UNCHANGED <<op, origin, out>>

NextCausal == Call_causal_conv1d \/ Return

SpecCausal == Init /\ [][NextCausal]_vars

\* C20: causal_conv1d pads the time axis on the left only, by
\* filter_dilation * (kernel_length - 1), and with subsample 1 the output
\* has the length of the input, for every input length >= 1, kernel length
\* >= 1 and filter_dilation >= 1.
C20_CausalLength ==
  call.fn = "causal_conv1d" =>
    LET a == call.args
        K == a.filters[3]
        left == a.filter_dilation * (K - 1)
    IN /\ ~IsRaise(call.result)
       /\ border_mode_to_pad(call.result.op.border_mode, 2,
                             <<(K - 1) * a.filter_dilation + 1, 1>>)
            = TupleV(<<TupleV(<<left, 0>>), TupleV(<<0, 0>>)>>)
       /\ a.subsample = 1 =>
            call.result.output = ndarray(<<a.input[1], a.filters[1], a.input[3]>>)

\* dilation 2 and kernel length 3 have given the left pad 4, and the input
\* of length 10 an output of length 10
C20_Witness ==
  /\ call.fn = "causal_conv1d"
  /\ call.args.filter_dilation = 2
  /\ call.args.filters[3] = 3
  /\ call.args.input[3] = 10
  /\ call.args.subsample = 1
  /\ call.result.op.border_mode = TupleV(<<PairV(4, 0), IntV(0)>>)
  /\ call.result.output.shape[3] = 10

\* The positions of the image, along spatial axis `axis` (1-based), whose
\* values enter the output of AbstractConv.perform at position t of that
\* axis; positions are 0-based.  perform writes the image at offset pad[i][0]
\* of a zero array (lines 2514-2537), conv correlates it in "valid" mode with
\* the kernel whose taps stand at the multiples of the dilation (2335-2387)
\* and the result is subsampled (2593-2599).
AbstractConv_perform_reads(self, img, kern, axis, t) ==
  LET cd == self.convdim
      d == self.filter_dilation[axis]
      s == self.subsample[axis]
      L == img[2 + axis]
      K == kern[Len(kern) - cd + axis]
      dil_kernshp == [i \in 1..cd |-> (kern[Len(kern) - cd + i] - 1) * self.filter_dilation[i] + 1]
  IN UNION { { p - pad.v[axis].v[1] : p \in { t * s + j * d : j \in 0..(K - 1) } } \cap 0..(L - 1) :
             pad \in {border_mode_to_pad(self.border_mode, cd, dil_kernshp)} }

\* C21 as stated: the output of causal_conv1d at position t reads only
\* input positions <= t - 1, never a position > t - 1.
C21_Original ==
  (call.fn = "causal_conv1d" /\ ~IsRaise(call.result)) =>
    \A t \in 0..(call.result.output.shape[3] - 1) :
      \A q \in AbstractConv_perform_reads(call.result.op, call.args.input \o <<1>>,
                                          call.args.filters \o <<1>>, 1, t) :
        q <= t - 1

(***************************************************************************)
(* The stored border_mode (under SpecCtor).                                *)
(***************************************************************************)
\* a pair (l, r) of non-negative integers with l # r
IsAsymmetricPair(m) == IsNonNegPair(m) /\ m.v[1] # m.v[2]

\* one of the three names, or a tuple of length convdim of non-negative
\* integers and asymmetric pairs that is not zero everywhere
IsCanonicalBorderMode(mode, convdim) ==
  \/ mode \in NamedModes
  \/ /\ mode.t = "tuple"
     /\ Len(mode.v) = convdim
     /\ \A i \in 1..convdim : IsNonNegInt(mode.v[i]) \/ IsAsymmetricPair(mode.v[i])
     /\ \E i \in 1..convdim : mode.v[i] # IntV(0)

\* a padding of zero on every axis: 0, (0, ..., 0), or pairs (0, 0)
IsZeroPad(mode) ==
  \/ mode = IntV(0)
  \/ /\ mode.t = "tuple"
     /\ \A i \in 1..Len(mode.v) : mode.v[i] \in {IntV(0), PairV(0, 0)}

\* C27: every constructed operator stores border_mode in canonical form:
\* "valid", "full" or "half", or a tuple of length convdim of non-negative
\* integers and pairs (l, r) of non-negative integers with l # r, not all
\* entries zero; a constructor given a zero pad as 0, (0, ..., 0) or pairs
\* (0, 0) stores "valid".
C27_CanonicalBorderMode ==
  /\ op # NoOp => IsCanonicalBorderMode(op.border_mode, op.convdim)
  /\ origin # NoOp => IsCanonicalBorderMode(origin.border_mode, origin.convdim)
  /\ (/\ call.fn = "BaseAbstractConv.__init__"
      /\ call.result = None
      /\ IsZeroPad(call.args.border_mode))
     => op.border_mode = StrV("valid")

\* the pairs ((0, 0), (0, 0)) have been stored as "valid"
C27_Witness ==
  /\ call.fn = "BaseAbstractConv.__init__"
  /\ call.result = None
  /\ call.first = NoOp
  /\ call.args.border_mode = TupleV(<<PairV(0, 0), PairV(0, 0)>>)
  /\ op.border_mode = StrV("valid")

(***************************************************************************)
(* Arrays with contents (link/numba/dispatch/extra_ops.py).                *)
(* An array is its shape and its elements: a function from the index      *)
(* tuples (0-based entries) to values.                                     *)
(***************************************************************************)
MaxNdim == 3
MaxDim == 3

array(shape, at) == [t |-> "array", shape |-> shape, at |-> at]

\* the index tuples of an array of the given shape
Indices(shape) ==
  {i \in [1..Len(shape) -> 0..(MaxDim + 1)] : \A a \in 1..Len(shape) : i[a] < shape[a]}

\* the number of elements of the axes after axis a (1-based)
RECURSIVE SizeFrom(_, _)
SizeFrom(shape, a) == IF a >= Len(shape) THEN 1 ELSE shape[a + 1] * SizeFrom(shape, a + 1)

\* the index tuple of the k-th element in row-major order
unravel_c(k, shape) == [a \in 1..Len(shape) |-> (k \div SizeFrom(shape, a)) % shape[a]]

\* x.transpose(axes): axis k of the result is axis axes[k] of x
transpose(x, axes) ==
  LET n == Len(x.shape)
      shape == [k \in 1..n |-> x.shape[axes[k] + 1]]
  IN array(shape,
           [j \in Indices(shape) |->
              x.at[[a \in 1..n |-> j[CHOOSE k \in 1..n : axes[k] + 1 = a]]]])

\* np.argsort of a permutation: its inverse
argsort(axes) == [a \in 1..Len(axes) |-> (CHOOSE k \in 1..Len(axes) : axes[k] = a - 1) - 1]

(***************************************************************************)
(* numba_funcify_CumOp (extra_ops.py 34-97).  The value of an element is   *)
(* the sequence of the input positions accumulated into it, so an input    *)
(* element at index i is <<i>> and the sum (product) of a value with an    *)
(* element is the value with the element's position appended.              *)
(***************************************************************************)
\* the input array: the element at index i is <<i>>
InputArray(shape) == array(shape, [i \in Indices(shape) |-> <<i>>])

\* lines 36-47: the lowering normalises the axis, rejects one out of range
\* and computes the two permutations
numba_funcify_CumOp(axis, mode, ndim) ==
  IF axis # None /\ ((IF axis.v < 0 THEN ndim + axis.v ELSE axis.v) < 0
                     \/ (IF axis.v < 0 THEN ndim + axis.v ELSE axis.v) >= ndim)
  THEN Raise("ValueError")
  ELSE IF axis = None THEN [t |-> "cumop", axis |-> None, mode |-> mode, ndim |-> ndim]
  ELSE
    LET ax == IF axis.v < 0 THEN ndim + axis.v ELSE axis.v
        reaxis_first == <<ax>> \o SelectSeq([k \in 1..ndim |-> k - 1], LAMBDA i : i # ax)
    IN [t |-> "cumop", axis |-> IntV(ax), mode |-> mode, ndim |-> ndim,
        reaxis_first |-> reaxis_first, reaxis_first_inv |-> argsort(reaxis_first)]

\* lines 66-68 and 89-91: res[0] = x_axis_first[0];
\* res[m] = res[m - 1] (+ or *) x_axis_first[m]
RECURSIVE cum_loop(_, _)
cum_loop(x_axis_first, j) ==
  IF j[1] = 0 THEN x_axis_first.at[j]
  ELSE cum_loop(x_axis_first, [j EXCEPT ![1] = @ - 1]) \o x_axis_first.at[j]

\* lines 49-95: the lowered function applied to x
cumop(f, x) ==
  IF f.axis = None \/ f.ndim = 1
  THEN \* np.cumsum(x), np.cumprod(x): over the flattened array
       LET size == SizeFrom(<<1>> \o x.shape, 1)
       IN array(<<size>>,
                [j \in Indices(<<size>>) |->
                   [m \in 1..(j[1] + 1) |-> x.at[unravel_c(m - 1, x.shape)][1]]])
  ELSE IF x.shape[f.axis.v + 1] < 2 THEN x
  ELSE Only({ Only({ transpose(res, IF f.mode = "add" THEN f.reaxis_first_inv
                                     ELSE f.reaxis_first) :
                     res \in {array(x_axis_first.shape,
                                    [j \in Indices(x_axis_first.shape) |->
                                       cum_loop(x_axis_first, j)])} }) :
              x_axis_first \in {transpose(x, f.reaxis_first)} })

CumShapes(ndim) == {sh \in [1..ndim -> 1..MaxDim] : TRUE}

\* CumOp(axis, mode) lowered for an input of ndim dimensions and applied to
\* an array of every shape of that many dimensions
Call_CumOp ==
  /\ call = NoCall
  /\ \E ndim \in 1..MaxNdim, mode \in {"add", "mul"},
        axis \in {None} \cup {IntV(a) : a \in (-MaxNdim - 1)..MaxNdim} :
       \E shape \in CumShapes(ndim) :
         \E f \in {numba_funcify_CumOp(axis, mode, ndim)} :
           call' = [fn |-> "CumOp",
                    args |-> [axis |-> axis, mode |-> mode, ndim |-> ndim, x |-> shape],
                    result |-> IF IsRaise(f) THEN f ELSE cumop(f, InputArray(shape))]
  /\ UNCHANGED <<op, origin, out>>

NextCumOp == Call_CumOp \/ Return

SpecCumOp == Init /\ [][NextCumOp]_vars

\* the normalised axis is valid
ValidAxis(axis, ndim) ==
  /\ axis # None
  /\ (IF axis.v < 0 THEN ndim + axis.v ELSE axis.v) \in 0..(ndim - 1)

\* the cumulative sum (product) of the input along axis ax (0-based) at
\* index i: the positions i[ax] = 0, ..., i[ax] in this order
CumAlong(i, ax) == [m \in 1..(i[ax + 1] + 1) |-> [i EXCEPT ![ax + 1] = m - 1]]

\* the result for the given mode is the cumulative sum (product) along the
\* axis, in the input's axis order
CumAlongAxis(mode) ==
  (/\ call.fn = "CumOp"
   /\ call.args.mode = mode
   /\ call.args.ndim >= 2
   /\ call.args.axis # None)
  => IF ValidAxis(call.args.axis, call.args.ndim)
     THEN LET ax == IF call.args.axis.v < 0 THEN call.args.ndim + call.args.axis.v
                    ELSE call.args.axis.v
          IN /\ ~IsRaise(call.result)
             /\ call.result.shape = call.args.x
             /\ \A i \in Indices(call.args.x) : call.result.at[i] = CumAlong(i, ax)
     ELSE call.result = Raise("ValueError")

\* C28 as stated: for every ndim >= 2 and every valid axis the lowered
\* CumOp returns, for mode "prod" as for mode "add", an array of the input's
\* shape whose element at an index is the cumulative sum/product along the
\* axis at that index; an axis out of range is rejected with ValueError.
C28_Original == CumAlongAxis("add") /\ CumAlongAxis("mul")

(***************************************************************************)
(* numba_funcify_FillDiagonalOffset (extra_ops.py 110-132).  The elements  *)
(* of the input are marked with their position, the filled ones with val.  *)
(***************************************************************************)
MaxHeight == 4
MaxWidth == 3

Elem(pos) == [t |-> "elem", pos |-> pos]
Val == [t |-> "val", pos |-> <<>>]

\* the flat positions selected by b[start:stop:step] for step > 0 on an
\* array of the given length: a negative bound counts from the end, and
\* both bounds are clipped to the array
slice_indices(start, stop, step, length) ==
  LET clip(v) == IF v < 0 THEN (IF v + length < 0 THEN 0 ELSE v + length)
                 ELSE IF v > length THEN length ELSE v
  IN {k \in 0..(length - 1) : k >= clip(start) /\ k < clip(stop) /\ (k - clip(start)) % step = 0}

\* lines 113-130
filldiagonaloffset(a, val, offset) ==
  LET height == a.shape[1]
      width == a.shape[2]
      start == IF offset >= 0 THEN offset ELSE (-offset) * a.shape[2]
      num_of_step == IF offset >= 0 THEN Min(Min(width, height), width - offset)
                     ELSE Min(Min(width, height), height + offset)
      step == a.shape[2] + 1
      end == start + step * num_of_step
  IN Only({ array(a.shape,
                  [i \in DOMAIN a.at |->
                     IF i[1] * width + i[2] \in filled THEN val ELSE a.at[i]]) :
            filled \in {slice_indices(start, end, step, height * width)} })

\* the 2-D array of the given height and width with marked elements
Matrix(h, w) == array(<<h, w>>, [i \in {<<r, c>> : r \in 0..(h - 1), c \in 0..(w - 1)} |-> Elem(i)])

Call_FillDiagonalOffset ==
  /\ call = NoCall
  /\ \E h \in 1..MaxHeight, w \in 1..MaxWidth, offset \in (-MaxHeight - 2)..(MaxWidth + 2) :
       call' = [fn |-> "FillDiagonalOffset",
                args |-> [a |-> <<h, w>>, offset |-> offset],
                result |-> filldiagonaloffset(Matrix(h, w), Val, offset)]
  /\ UNCHANGED <<op, origin, out>>

NextFill == Call_FillDiagonalOffset \/ Return

SpecFill == Init /\ [][NextFill]_vars

\* C30 as stated: for every height, width and integer offset, offsets
\* beyond the width or the height included, the lowered FillDiagonalOffset
\* sets to val exactly the entries (i, i + offset) inside the array and
\* leaves every other entry as it was.
C30_Original ==
  call.fn = "FillDiagonalOffset" =>
    /\ call.result.shape = call.args.a
    /\ \A i \in DOMAIN call.result.at :
         call.result.at[i] = IF i[2] = i[1] + call.args.offset THEN Val ELSE Elem(i)

(***************************************************************************)
(* numba_funcify_CheckAndRaise (extra_ops.py 358-370).                     *)
(***************************************************************************)
MaxConditions == 3

\* `not cond` is false for True and for a non-zero number
truthy(cond) == IF cond.t = "bool" THEN cond.v ELSE cond.v # 0

\* a function that looks at the first condition only
check_and_raise_first_only(error, msg, x, conditions) ==
  IF Len(conditions) > 0 /\ ~truthy(conditions[1]) THEN RaiseMsg(error, msg) ELSE x

\* lines 363-368: the lowered function of an operator with exc_type error
\* and message msg
check_and_raise(error, msg, x, conditions) ==
  IF \E i \in 1..Len(conditions) : ~truthy(conditions[i]) THEN RaiseMsg(error, msg) ELSE x

Conditions == {BoolV(TRUE), BoolV(FALSE), IntV(0), IntV(1)}

Call_check_and_raise ==
  /\ call = NoCall
  /\ \E error \in {"AssertionError", "ValueError"}, msg \in {"", "shape mismatch"},
        x \in {ndarray(<<>>), ndarray(<<2, 3>>)}, n \in 0..MaxConditions :
       \E conditions \in [1..n -> Conditions] :
         call' = [fn |-> "check_and_raise",
                  args |-> [error |-> error, msg |-> msg, x |-> x, conditions |-> conditions],
                  result |-> check_and_raise(error, msg, x, conditions)]
  /\ UNCHANGED <<op, origin, out>>

NextCheckAndRaise == Call_check_and_raise \/ Return

SpecCheckAndRaise == Init /\ [][NextCheckAndRaise]_vars

\* C24: the lowered CheckAndRaise function raises the operator's error kind
\* with the operator's message if at least one condition is false, and
\* returns the payload x unchanged if all conditions are true, the case of
\* no condition included.
C24_CheckAndRaise ==
  call.fn = "check_and_raise" =>
    LET a == call.args
    IN IF \E i \in 1..Len(a.conditions) : a.conditions[i] \in {BoolV(FALSE), IntV(0)}
       THEN call.result = RaiseMsg(a.error, a.msg)
       ELSE call.result = a.x

\* the second of three conditions was false and the error was raised
C24_Witness ==
  /\ call.fn = "check_and_raise"
  /\ call.args.conditions = <<BoolV(TRUE), BoolV(FALSE), BoolV(TRUE)>>
  /\ call.args.error = "ValueError"
  /\ call.args.msg = "shape mismatch"
  /\ call.result = RaiseMsg("ValueError", "shape mismatch")

(***************************************************************************)
(* numba_funcify_Repeat, numba_funcify_Unique, numba_funcify_Searchsorted  *)
(* (extra_ops.py 200-241, 244-286, 324-355).  A lowering returns the       *)
(* function it has built: the call it makes to numpy, whether the call is  *)
(* made in object mode, and the warnings emitted while lowering.           *)
(***************************************************************************)
Lowered(name, objmode, np_args, warned) ==
  [t |-> "lowered", name |-> name, objmode |-> objmode, np_args |-> np_args,
   warnings |-> IF warned THEN <<"UserWarning">> ELSE <<>>]

\* lines 200-241
numba_funcify_Repeat(axis, repeats_ndim) ==
  LET use_python == axis # None
  IN IF use_python
     THEN Lowered("repeatop", TRUE, <<"x", "repeats", axis>>, TRUE)
     ELSE IF repeats_ndim = 0
     THEN Lowered("repeatop", FALSE, <<"x", "repeats.item()">>, FALSE)
     ELSE Lowered("repeatop", FALSE, <<"x", "repeats">>, FALSE)

\* a lowering that looks at the axis only
numba_funcify_Unique_axis_only(axis, return_index, return_inverse, return_counts) ==
  IF axis = None THEN Lowered("unique", FALSE, <<"x">>, FALSE)
  ELSE Lowered("unique", TRUE, <<"x", return_index, return_inverse, return_counts, axis>>, TRUE)

\* lines 244-286
numba_funcify_Unique(axis, return_index, return_inverse, return_counts) ==
  LET returns_multi == return_index \/ return_inverse \/ return_counts
      use_python == (axis # None) \/ returns_multi
  IN IF ~use_python
     THEN Lowered("unique", FALSE, <<"x">>, FALSE)
     ELSE Lowered("unique", TRUE, <<"x", return_index, return_inverse, return_counts, axis>>, TRUE)

\* lines 324-355: inputs is the number of inputs of the node, 3 with a sorter
numba_funcify_Searchsorted(side, inputs) ==
  LET use_python == inputs = 3
  IN IF use_python
     THEN Lowered("searchsorted", TRUE, <<"a", "v", side, "sorter">>, TRUE)
     ELSE Lowered("searchsorted", FALSE, <<"a", "v", side>>, FALSE)

\* the axes of an operator on an input of ndim dimensions
Axes(ndim) == {None} \cup {IntV(a) : a \in (-ndim)..(ndim - 1)}

Call_numba_funcify_Repeat ==
  /\ call = NoCall
  /\ \E ndim \in 1..MaxNdim, repeats_ndim \in 0..1 :
       \E axis \in Axes(ndim) :
         call' = [fn |-> "numba_funcify_Repeat",
                  args |-> [ndim |-> ndim, axis |-> axis, repeats_ndim |-> repeats_ndim],
                  result |-> numba_funcify_Repeat(axis, repeats_ndim)]
  /\ UNCHANGED <<op, origin, out>>

Call_numba_funcify_Unique ==
  /\ call = NoCall
  /\ \E ndim \in 1..MaxNdim, return_index \in BOOLEAN, return_inverse \in BOOLEAN,
        return_counts \in BOOLEAN :
       \E axis \in Axes(ndim) :
         call' = [fn |-> "numba_funcify_Unique",
                  args |-> [ndim |-> ndim, axis |-> axis, return_index |-> return_index,
                            return_inverse |-> return_inverse,
                            return_counts |-> return_counts],
                  result |-> numba_funcify_Unique(axis, return_index, return_inverse,
                                                  return_counts)]
  /\ UNCHANGED <<op, origin, out>>

Call_numba_funcify_Searchsorted ==
  /\ call = NoCall
  /\ \E side \in {"left", "right"}, inputs \in 2..3 :
       call' = [fn |-> "numba_funcify_Searchsorted",
                args |-> [side |-> side, inputs |-> inputs],
                result |-> numba_funcify_Searchsorted(side, inputs)]
  /\ UNCHANGED <<op, origin, out>>

NextLower ==
  \/ Call_numba_funcify_Repeat
  \/ Call_numba_funcify_Unique
  \/ Call_numba_funcify_Searchsorted
  \/ Return

SpecLower == Init /\ [][NextLower]_vars

\* the configuration of the call takes the native path
FastConfiguration ==
  \/ /\ call.fn = "numba_funcify_Unique"
     /\ call.args.axis = None
     /\ ~call.args.return_index /\ ~call.args.return_inverse /\ ~call.args.return_counts
  \/ /\ call.fn = "numba_funcify_Repeat"
     /\ call.args.axis = None
  \/ /\ call.fn = "numba_funcify_Searchsorted"
     /\ call.args.inputs = 2

\* C25: Unique is lowered to the native path exactly when axis is None and
\* no return_* flag is set, Repeat exactly when axis is None, Searchsorted
\* exactly when there is no sorter input; every other configuration is
\* lowered to the object-mode path; a warning is emitted if and only if the
\* object-mode path is selected; no lowering raises.
C25_PathSelection ==
  call.fn \in {"numba_funcify_Unique", "numba_funcify_Repeat", "numba_funcify_Searchsorted"}
  => /\ ~IsRaise(call.result)
     /\ call.result.objmode = ~FastConfiguration
     /\ (call.result.warnings # <<>>) = call.result.objmode

\* Unique with axis None and return_counts set has been lowered to object
\* mode with a warning
C25_Witness ==
  /\ call.fn = "numba_funcify_Unique"
  /\ call.args.axis = None
  /\ call.args.return_counts /\ ~call.args.return_index /\ ~call.args.return_inverse
  /\ call.result.objmode
  /\ call.result.warnings = <<"UserWarning">>

(***************************************************************************)
(* numba_funcify_RavelMultiIndex (extra_ops.py 135-197).                   *)
(*   coords : one array per axis, all 0-dimensional or all 1-dimensional   *)
(*            of the same length; shape : the sizes of the axes            *)
(* The values are small integers, which float64 holds exactly.             *)
(***************************************************************************)
MaxPoints == 2

\* lines 145-160: the value stored for an out-of-range coordinate v on an
\* axis of size d, or the exception raised
mode_fn(mode, v, d) ==
  IF mode = "raise" THEN Raise("ValueError")
  ELSE IF mode = "wrap" THEN IntV(v % d)
  ELSE IntV(Min(Max(v, 0), d - 1))

\* lines 174-175 and 192-193: a[k] is the product of the sizes after axis k
ravel_strides(shape) == [k \in 1..Len(shape) |-> SizeFrom(shape, k)]

RECURSIVE dot(_, _)
dot(a, b) == IF Len(a) = 0 THEN 0 ELSE a[1] * b[1] + dot(Tail(a), Tail(b))

\* lines 137-143: the lowering rejects every order but "C"
numba_funcify_RavelMultiIndex(mode, order, ndim) ==
  IF order # "C" THEN Raise("NotImplementedError")
  ELSE [t |-> "ravelmultiindex", mode |-> mode, ndim |-> ndim]

\* lines 162-195: the lowered function applied to the coordinate arrays and
\* the shape
ravelmultiindex(f, coords, shape) ==
  LET n == Len(shape)
      out_of_range(v, d) == v < 0 \/ v >= d
  IN IF f.ndim = 0
     THEN \* new_arr is 1-dimensional: new_arr[i] is the coordinate on axis i
          LET new_arr == [i \in 1..n |-> coords[i].at[<<>>]]
          IN IF \E i \in 1..n : out_of_range(new_arr[i], shape[i])
             THEN IF f.mode = "raise" THEN Raise("ValueError")
                  \* new_arr[i, 0] = ... on the 1-dimensional new_arr
                  ELSE Raise("IndexError")
             ELSE array(<<>>, [j \in {<<>>} |-> dot(ravel_strides(shape), new_arr)])
     ELSE \* new_arr[i][j] is the coordinate of point i on axis j
          LET m == coords[1].shape[1]
              fixed == [i \in 1..m |-> [j \in 1..n |->
                          IF out_of_range(coords[j].at[<<i - 1>>], shape[j])
                          THEN mode_fn(f.mode, coords[j].at[<<i - 1>>], shape[j])
                          ELSE IntV(coords[j].at[<<i - 1>>])]]
          IN IF \E i \in 1..m, j \in 1..n : IsRaise(fixed[i][j])
             THEN Raise("ValueError")
             ELSE array(<<m>>,
                        [k \in Indices(<<m>>) |->
                           dot(ravel_strides(shape), [j \in 1..n |-> fixed[k[1] + 1][j].v])])

\* two axes of sizes 2..MaxDim; scalar coordinates, or vectors of up to
\* MaxPoints coordinates, from -1 to MaxDim
Call_RavelMultiIndex ==
  /\ call = NoCall
  /\ \E mode \in {"raise", "wrap", "clip"}, order \in {"C", "F"}, ndim \in 0..1,
        shape \in [1..2 -> 2..MaxDim], m \in 1..MaxPoints :
       \E cs \in [1..2 -> [1..(IF ndim = 0 THEN 1 ELSE m) -> -1..MaxDim]] :
         \E f \in {numba_funcify_RavelMultiIndex(mode, order, ndim)} :
           LET coords == [j \in 1..2 |->
                            IF ndim = 0 THEN array(<<>>, [i \in {<<>>} |-> cs[j][1]])
                            ELSE array(<<m>>, [i \in {<<p>> : p \in 0..(m - 1)} |-> cs[j][i[1] + 1]])]
           IN call' = [fn |-> "RavelMultiIndex",
                       args |-> [mode |-> mode, order |-> order, ndim |-> ndim,
                                 coords |-> coords, shape |-> shape],
                       result |-> IF IsRaise(f) THEN f ELSE ravelmultiindex(f, coords, shape)]
  /\ UNCHANGED <<op, origin, out>>

NextRavel == Call_RavelMultiIndex \/ Return

SpecRavel == Init /\ [][NextRavel]_vars

\* the coordinate v on an axis of size d after the out-of-bounds policy
Policy(mode, v, d) ==
  IF v >= 0 /\ v < d THEN v
  ELSE IF mode = "wrap" THEN v % d
  ELSE IF v < 0 THEN 0 ELSE d - 1

\* C26 as stated: with order "C", an out-of-range coordinate raises
\* ValueError in mode "raise", and is replaced by v mod d in mode "wrap" and
\* by min(max(v, 0), d - 1) in mode "clip" before the dot product with the
\* row-major strides; in modes "wrap" and "clip" every flat index lies in
\* [0, product of shape), and for in-range coordinates the result is the
\* sum of coordinate_i times the product of the sizes of the later axes.
C26_Original ==
  (call.fn = "RavelMultiIndex" /\ call.args.order = "C") =>
    LET a == call.args
        n == Len(a.shape)
        points == DOMAIN a.coords[1].at
        bad == \E i \in points, j \in 1..n :
                 a.coords[j].at[i] < 0 \/ a.coords[j].at[i] >= a.shape[j]
    IN IF bad /\ a.mode = "raise" THEN call.result = Raise("ValueError")
       ELSE /\ ~IsRaise(call.result)
            /\ DOMAIN call.result.at = points
            /\ \A i \in points :
                 /\ call.result.at[i]
                      = dot([j \in 1..n |-> SizeFrom(a.shape, j)],
                        [j \in 1..n |-> Policy(a.mode, a.coords[j].at[i], a.shape[j])])
                 /\ call.result.at[i] \in 0..(SizeFrom(<<1>> \o a.shape, 1) - 1)

(***************************************************************************)
(* assert_shape (abstract_conv.py 564-597).                                *)
(*   x              : a tensor variable with its static shape (IntV/None)  *)
(*   expected_shape : None or TupleV of IntV / None                        *)
(*   conv__assert_shape : the configuration flag config.conv__assert_shape *)
(* The result is x itself or the Assert node built on x; evaluating an     *)
(* Assert node checks its conditions on the array bound to x.              *)
(***************************************************************************)
MaxRank == 2
MaxExtent == 2

Variable(static) == [t |-> "var", static |-> static]

\* pt.eq(shape[i], expected_shape[i]) for axis i (0-based)
EqShape(i, expected) == [t |-> "eq", axis |-> i, expected |-> expected]

\* a function that does not read the configuration flag
assert_shape_always(x, expected_shape, msg, conv__assert_shape) ==
  IF expected_shape = None \/ \A k \in 1..Len(x.static) : expected_shape.v[k] = None THEN x
  ELSE [t |-> "Assert", msg |-> msg, x |-> x,
        tests |-> [k \in 1..Len(SelectSeq(expected_shape.v, LAMBDA e : e # None)) |->
                     LET axis == CHOOSE i \in 1..Len(x.static) :
                                   /\ expected_shape.v[i] # None
                                   /\ Cardinality({j \in 1..i : expected_shape.v[j] # None}) = k
                     IN EqShape(axis - 1, expected_shape.v[axis].v)]]

\* lines 586-597
assert_shape(x, expected_shape, msg, conv__assert_shape) ==
  IF expected_shape = None \/ ~conv__assert_shape THEN x
  ELSE
    LET ndim == Len(x.static)
        known == SelectSeq([k \in 1..ndim |-> k], LAMBDA k : expected_shape.v[k] # None)
        tests == [k \in 1..Len(known) |-> EqShape(known[k] - 1, expected_shape.v[known[k]].v)]
    IN IF Len(tests) > 0
       THEN [t |-> "Assert", msg |-> msg, x |-> x, tests |-> tests]
       ELSE x

\* the value of the graph when x is bound to an array of the given shape:
\* an Assert node is the CheckAndRaise operator with AssertionError
evaluate(graph, shape) ==
  IF graph.t = "var" THEN ndarray(shape)
  ELSE check_and_raise("AssertionError", graph.msg, ndarray(shape),
                       [k \in 1..Len(graph.tests) |->
                          BoolV(shape[graph.tests[k].axis + 1] = graph.tests[k].expected)])

ShapeEntries == {None} \cup {IntV(e) : e \in 1..MaxExtent}

\* assert_shape on a variable of 1..MaxRank dimensions, each statically
\* known or not, followed by the evaluation of the result on an array that
\* fits the static shape
Call_assert_shape ==
  /\ call = NoCall
  /\ \E ndim \in 1..MaxRank, flag \in BOOLEAN :
       \E static \in [1..ndim -> ShapeEntries],
          expected \in {None} \cup {TupleV(e) : e \in [1..ndim -> ShapeEntries]},
          shape \in [1..ndim -> 1..MaxExtent] :
         /\ \A k \in 1..ndim : static[k] # None => shape[k] = static[k].v
         /\ \E graph \in {assert_shape(Variable(static), expected, "Unexpected shape.", flag)} :
              call' = [fn |-> "assert_shape",
                       args |-> [x |-> Variable(static), expected_shape |-> expected,
                                 msg |-> "Unexpected shape.", conv__assert_shape |-> flag,
                                 shape |-> shape],
                       result |-> [graph |-> graph, value |-> evaluate(graph, shape)]]
  /\ UNCHANGED <<op, origin, out>>

NextAssert == Call_assert_shape \/ Return

SpecAssert == Init /\ [][NextAssert]_vars

\* the axes (1-based) with a known expected size
KnownAxes(expected) ==
  IF expected = None THEN {} ELSE {k \in 1..Len(expected.v) : expected.v[k] # None}

\* C23 as stated: for each known expected dimension, a mismatch with a
\* statically known dimension of the tensor makes the construction fail, and
\* otherwise an assertion is attached that raises at evaluation time on a
\* mismatch; with expected_shape None or unknown in every entry, x is
\* returned unchanged.
C23_Original ==
  call.fn = "assert_shape" =>
    LET a == call.args
        known == KnownAxes(a.expected_shape)
    IN IF known = {} THEN call.result.graph = a.x
       ELSE IF \E k \in known : a.x.static[k] # None /\ a.x.static[k] # a.expected_shape.v[k]
       THEN IsRaise(call.result.graph)
       ELSE /\ ~IsRaise(call.result.graph)
            /\ IsRaise(call.result.value)
                 = (\E k \in known : a.shape[k] # a.expected_shape.v[k].v)

\* C23: when config.conv__assert_shape is set and some expected dimension
\* is known, assert_shape returns x wrapped in an Assert with one condition
\* shape[i] = expected_shape[i] for each known dimension, whether or not the
\* tensor's dimension is statically known; it never fails at construction,
\* and the evaluation raises AssertionError with the message exactly when a
\* known dimension differs.  With expected_shape None, every entry unknown,
\* or the flag unset, x is returned unchanged, with no assertion.
C23_AssertShape ==
  call.fn = "assert_shape" =>
    LET a == call.args
        known == KnownAxes(a.expected_shape)
        g == call.result.graph
    IN IF known = {} \/ ~a.conv__assert_shape
       THEN g = a.x /\ call.result.value = ndarray(a.shape)
       ELSE /\ g.t = "Assert"
            /\ g.x = a.x
            /\ g.msg = a.msg
            /\ {g.tests[k].axis + 1 : k \in 1..Len(g.tests)} = known
            /\ \A k \in 1..Len(g.tests) :
                 g.tests[k].expected = a.expected_shape.v[g.tests[k].axis + 1].v
            /\ call.result.value
                 = IF \E k \in known : a.shape[k] # a.expected_shape.v[k].v
                   THEN RaiseMsg("AssertionError", a.msg)
                   ELSE ndarray(a.shape)

\* a statically known dimension 1 expected to be 2: the Assert has been
\* built, and its evaluation has raised
C23_Witness ==
  /\ call.fn = "assert_shape"
  /\ call.args.conv__assert_shape
  /\ call.args.x.static = <<IntV(1), None>>
  /\ call.args.expected_shape = TupleV(<<IntV(2), None>>)
  /\ call.result.graph.t = "Assert"
  /\ call.result.value = RaiseMsg("AssertionError", "Unexpected shape.")

(***************************************************************************)
(* conv2d, conv2d_grad_wrt_inputs, conv2d_transpose (abstract_conv.py      *)
(* 662-693, 3504-3616, 1059-1226, 3619-3710).                              *)
(* A graph node is the operator and its inputs; the array inputs are the   *)
(* shapes of the arrays bound to them.  A symbolic scalar of an            *)
(* input_shape carries the value it has at run time.                       *)
(***************************************************************************)
Node(o, inputs) == [t |-> "apply", op |-> o, inputs |-> inputs]

\* lines 681-693
abstract_conv2d(input, filters, input_shape, filter_shape, border_mode, subsample, filter_flip, filter_dilation, num_groups, unshared) ==
  Only({ IF IsRaise(conv_op) THEN conv_op ELSE Node(conv_op, <<input, filters>>) :
         conv_op \in {Conv2d_init("Forward", input_shape, filter_shape, border_mode, subsample,
                                  filter_flip, filter_dilation, num_groups, unshared)} })

\* lines 3605-3616
conv2d(input, filters, input_shape, filter_shape, border_mode, subsample, filter_flip, filter_dilation, num_groups, unshared) ==
  abstract_conv2d(input, filters, input_shape, filter_shape, border_mode, subsample,
                  filter_flip, filter_dilation, num_groups, unshared)

\* lines 1172-1226: input_shape is a sequence of IntV, None and symbolic
\* scalars; filter_shape is None or a TupleV
conv2d_grad_wrt_inputs(output_grad, filters, input_shape, filter_shape, border_mode, subsample, filter_flip, filter_dilation, num_groups, unshared) ==
  IF \E dim \in 1..2 : input_shape[dim].t \notin {"int", "none"}
  THEN Raise("ValueError")
  ELSE IF \E dim \in 3..4 : input_shape[dim].t \notin {"sym", "int"}
  THEN Raise("ValueError")
  ELSE IF filter_shape # None /\ Len(filter_shape.v) # (IF unshared THEN 6 ELSE 4)
  THEN Raise("ValueError")
  ELSE IF filter_shape # None
          /\ \E dim \in 1..Len(filter_shape.v) : filter_shape.v[dim].t \notin {"int", "none"}
  THEN Raise("ValueError")
  ELSE
    LET numerical_input_shape ==
          [dim \in 1..Len(input_shape) |->
             IF dim \in 3..4 /\ input_shape[dim].t = "sym" THEN None ELSE input_shape[dim]]
    IN Only({ IF IsRaise(grad_input_op) THEN grad_input_op
              ELSE Node(grad_input_op, <<filters, output_grad, LastN(input_shape, 2)>>) :
              grad_input_op \in {Conv2d_init("GradInputs", TupleV(numerical_input_shape),
                                             filter_shape, border_mode, subsample, filter_flip,
                                             filter_dilation, num_groups, unshared)} })

\* a transposed convolution that forgets the input dilation
conv2d_transpose_undilated(input, filters, output_shape, filter_shape, border_mode, input_dilation, filter_flip, filter_dilation, num_groups, unshared) ==
  conv2d_grad_wrt_inputs(input, filters, output_shape, filter_shape, border_mode,
                         TupleV(<<1, 1>>), filter_flip, filter_dilation, num_groups, unshared)

\* lines 3699-3710
conv2d_transpose(input, filters, output_shape, filter_shape, border_mode, input_dilation, filter_flip, filter_dilation, num_groups, unshared) ==
  conv2d_grad_wrt_inputs(input, filters, output_shape, filter_shape, border_mode,
                         input_dilation, filter_flip, filter_dilation, num_groups, unshared)

\* the value of a graph node: the operator's perform on its inputs
run(node) ==
  IF IsRaise(node) THEN node
  ELSE IF node.op.kind = "Forward"
  THEN AbstractConv_perform(node.op, node.inputs[1], node.inputs[2])
  ELSE AbstractConv_gradInputs_perform(node.op, node.inputs[1], node.inputs[2],
                                       [i \in 1..2 |-> node.inputs[3][i].v])

TransposeBorderModes ==
  NamedModes \cup {IntV(p) : p \in 0..MaxPad}
    \cup {TupleV(<<IntV(1), IntV(0)>>), TupleV(<<PairV(1, 0), PairV(0, MaxPad)>>)}

\* y = conv2d(image, filters, ...) is evaluated, and then
\* conv2d_transpose(y, filters, shape of the image, ...) with the same
\* border_mode, the stride as input_dilation and the same filter_dilation;
\* the last two entries of output_shape are integers or symbolic scalars
Call_conv2d_transpose ==
  /\ call = NoCall
  /\ \E G \in 1..MaxGroups, X \in (1..MaxImage) \X {MaxImage - 1},
        K \in (1..MaxKernel) \X {1, 2}, bm \in TransposeBorderModes,
        s \in (1..MaxStride) \X (1..MaxStride), d \in 1..MaxDilation,
        flip \in BOOLEAN, sym \in BOOLEAN :
       \E y \in {run(conv2d(<<1, G, X[1], X[2]>>, <<G, 1, K[1], K[2]>>, None, None, bm,
                            TupleV(s), flip, TupleV(<<d, 1>>), G, FALSE))} :
         /\ ~IsRaise(y)
         /\ LET a == [image |-> <<1, G, X[1], X[2]>>,
                      input |-> y.shape,
                      filters |-> <<G, 1, K[1], K[2]>>,
                      output_shape |-> <<IntV(1), IntV(G)>>
                                         \o (IF sym THEN <<SymV(X[1]), SymV(X[2])>>
                                             ELSE <<IntV(X[1]), IntV(X[2])>>),
                      filter_shape |-> None, border_mode |-> bm,
                      input_dilation |-> TupleV(s), filter_flip |-> flip,
                      filter_dilation |-> TupleV(<<d, 1>>), num_groups |-> G,
                      unshared |-> FALSE]
            IN \E node \in {conv2d_transpose(a.input, a.filters, a.output_shape,
                                             a.filter_shape, a.border_mode, a.input_dilation,
                                             a.filter_flip, a.filter_dilation, a.num_groups,
                                             a.unshared)} :
                 call' = [fn |-> "conv2d_transpose", args |-> a, node |-> node,
                          result |-> run(node)]
  /\ UNCHANGED <<op, origin, out>>

NextTranspose == Call_conv2d_transpose \/ Return

SpecTranspose == Init /\ [][NextTranspose]_vars

MaxRatio == 4

\* lines 1804-1809: half_kern = (1, ..., ratio), followed by its reverse
\* without the last element, divided by ratio
bilinear_kernel_1D(ratio, normalize) ==
  LET half_kern == [i \in 1..ratio |-> i]
      kern == half_kern \o [i \in 1..(ratio - 1) |-> half_kern[ratio - i]]
  IN [i \in 1..Len(kern) |-> IF normalize THEN FloatV(kern[i], ratio) ELSE FloatV(kern[i], 1)]

\* a padding of the kernel's half length
bilinear_pad_half(ratio) == ratio - 1

\* line 2006
bilinear_pad(ratio) == 2 * ratio - (ratio - 1) \div 2 - 1

\* None is falsy, and so is 0
falsy(x) == x = None \/ x = IntV(0)

\* lines 1973-2046
bilinear_upsampling(input, ratio, frac_ratio, batch_size, num_input_channels, use_1D_kernel) ==
  IF ~falsy(ratio) /\ ~falsy(frac_ratio) THEN Raise("ValueError")
  ELSE IF falsy(ratio) /\ falsy(frac_ratio) THEN Raise("ValueError")
  ELSE IF ~falsy(frac_ratio) /\ use_1D_kernel THEN Raise("ValueError")
  ELSE
    LET r == ratio.v
        up_bs == IF batch_size = None \/ num_input_channels = None THEN None
                 ELSE IntV(batch_size.v * num_input_channels.v)
        row == input[3]
        col == input[4]
        \* up_input = input.reshape((-1, 1, row, col)), with the first and
        \* last row and column repeated
        concat_mat == <<input[1] * input[2], 1, row + 2, col + 2>>
        concat_col == col + 2
        pad == bilinear_pad(r)
        klen == Len(bilinear_kernel_1D(r, TRUE))
        reshaped(v) ==
          IF IsRaise(v) THEN v
          ELSE IF SizeFrom(<<1>> \o v.shape, 1) # input[1] * input[2] * row * r * col * r
          THEN Raise("ValueError")
          ELSE ndarray(<<input[1], input[2], row * r, col * r>>)
    IN IF use_1D_kernel
       THEN Only({
              Only({
                Only({
                  Only({ [t |-> "upsampled", nodes |-> <<n1, n2>>, value |-> reshaped(upsampled_mat)] :
                         upsampled_mat \in {run(n2)} }) :
                  n2 \in {IF IsRaise(upsampled_row) THEN upsampled_row
                          ELSE conv2d_grad_wrt_inputs(
                                 upsampled_row.shape, <<1, 1, 1, klen>>,
                                 <<up_bs, IntV(1), SymV(row * r), SymV(col * r)>>,
                                 TupleV(<<IntV(1), IntV(1), IntV(1), None>>),
                                 TupleV(<<IntV(0), IntV(pad)>>), TupleV(<<1, r>>), TRUE,
                                 TupleV(<<1, 1>>), 1, FALSE)} }) :
                upsampled_row \in {run(n1)} }) :
              n1 \in {conv2d_grad_wrt_inputs(
                        concat_mat, <<1, 1, klen, 1>>,
                        <<up_bs, IntV(1), SymV(row * r), SymV(concat_col)>>,
                        TupleV(<<IntV(1), IntV(1), None, IntV(1)>>),
                        TupleV(<<IntV(pad), IntV(0)>>), TupleV(<<r, 1>>), TRUE,
                        TupleV(<<1, 1>>), 1, FALSE)} })
       ELSE Only({
              Only({ [t |-> "upsampled", nodes |-> <<n1>>, value |-> reshaped(upsampled_mat)] :
                     upsampled_mat \in {run(n1)} }) :
              n1 \in {conv2d_grad_wrt_inputs(
                        concat_mat, <<1, 1, klen, klen>>,
                        <<up_bs, IntV(1), SymV(row * r), SymV(col * r)>>,
                        TupleV(<<IntV(1), IntV(1), None, None>>),
                        TupleV(<<IntV(pad), IntV(pad)>>), TupleV(<<r, r>>), TRUE,
                        TupleV(<<1, 1>>), 1, FALSE)} })

\* inputs of 1..2 images of 1..2 channels and 1..MaxImage rows and columns;
\* ratio None or 0..MaxRatio; batch_size and num_input_channels given or
\* not; a fractional ratio only where it is rejected
Call_bilinear_upsampling ==
  /\ call = NoCall
  /\ \E B \in BatchSizes, C \in 1..2, row \in 1..MaxImage, col \in 1..MaxImage,
        ratio \in {None} \cup {IntV(r) : r \in 0..MaxRatio},
        frac_ratio \in {None, TupleV(<<IntV(3), IntV(2)>>)},
        static \in BOOLEAN, use_1D_kernel \in BOOLEAN :
       /\ frac_ratio # None => (~falsy(ratio) \/ use_1D_kernel)
       /\ LET a == [input |-> <<B, C, row, col>>, ratio |-> ratio, frac_ratio |-> frac_ratio,
                    batch_size |-> IF static THEN IntV(B) ELSE None,
                    num_input_channels |-> IF static THEN IntV(C) ELSE None,
                    use_1D_kernel |-> use_1D_kernel]
          IN call' = [fn |-> "bilinear_upsampling", args |-> a,
                      result |-> bilinear_upsampling(a.input, a.ratio, a.frac_ratio,
                                                     a.batch_size, a.num_input_channels,
                                                     a.use_1D_kernel)]
  /\ UNCHANGED <<op, origin, out>>

NextUpsampling == Call_bilinear_upsampling \/ Return

SpecUpsampling == Init /\ [][NextUpsampling]_vars

\* C29: for every integer ratio >= 1 and every input of rows >= 1 and
\* cols >= 1, with kernel length 2 * ratio - 1, symmetric padding
\* pad = 2 * ratio - (ratio - 1) // 2 - 1 and stride ratio the forward
\* output size of an image of size rows * ratio is rows + 2, so the
\* transposed convolutions built by bilinear_upsampling pass the shape check
\* of GradInputs and the result has the spatial shape
\* (rows * ratio, cols * ratio), for both use_1D_kernel settings.
C29_UpsamplingShapes ==
  (/\ call.fn = "bilinear_upsampling"
   /\ call.args.frac_ratio = None
   /\ call.args.ratio # None
   /\ call.args.ratio.v >= 1)
  => LET a == call.args
         r == a.ratio.v
         pad == 2 * r - (r - 1) \div 2 - 1
         nodes == call.result.nodes
     IN /\ \A x \in {a.input[3], a.input[4]} :
             get_conv_shape_1axis(IntV(x * r), IntV(2 * r - 1), IntV(pad), IntV(r), IntV(1))
               = IntV(x + 2)
        /\ ~IsRaise(call.result)
        /\ \A i \in 1..Len(nodes) :
             /\ ~IsRaise(nodes[i])
             /\ nodes[i].op.kind = "GradInputs"
             /\ \A ax \in 1..2 :
                  LET up == a.use_1D_kernel => ax = i
                  IN /\ nodes[i].inputs[1][2 + ax] = IF up THEN 2 * r - 1 ELSE 1
                     /\ nodes[i].op.subsample[ax] = IF up THEN r ELSE 1
                     /\ border_mode_to_pad(nodes[i].op.border_mode, 2,
                                           LastN(nodes[i].inputs[1], 2)).v[ax]
                          = IF up THEN TupleV(<<pad, pad>>) ELSE TupleV(<<0, 0>>)
        /\ Len(nodes) = IF a.use_1D_kernel THEN 2 ELSE 1
        /\ call.result.value = ndarray(<<a.input[1], a.input[2], a.input[3] * r, a.input[4] * r>>)

\* ratio 2 on an input of shape (1, 1, 2, 2) has given (1, 1, 4, 4) with the
\* two 1D kernels of length 3
C29_Witness ==
  /\ call.fn = "bilinear_upsampling"
  /\ call.args.input = <<1, 1, 2, 2>>
  /\ call.args.ratio = IntV(2)
  /\ call.args.frac_ratio = None
  /\ call.args.use_1D_kernel
  /\ call.result.nodes[1].inputs[1] = <<1, 1, 3, 1>>
  /\ call.result.nodes[1].inputs[2] = <<1, 1, 4, 4>>
  /\ call.result.value = ndarray(<<1, 1, 4, 4>>)

====
